---- MODULE Spec2Model ----
(***************************************************************************)
(* Bulk catalog import of server/routes/productRoutes.js: the Excel        *)
(* preview (POST /bulk-preview), the CSV preview (POST /bulk-preview-csv)  *)
(* and the bulk save (POST /bulk-save), over a store of dimension entities *)
(* and a store of products; with them the soft delete of a category        *)
(* (DELETE /api/categories/:id) and order tracking (POST                   *)
(* /api/orders/track) over a store of orders.                              *)
(*                                                                         *)
(* A JavaScript string is a sequence of one-character strings; a row, a    *)
(* candidate and a stored document are records whose domain is the set of  *)
(* properties that are defined (an absent property is undefined).  A       *)
(* request is a call; every await of a handler ends one atomic step.       *)
(***************************************************************************)
EXTENDS Integers, Sequences, FiniteSets, TLC

VARIABLES
    products,   \* the Product collection, in insertion order
    dims,       \* kind -> that collection of dimension entities; _id = index
    calls,      \* call id -> the request's locals, position and response;
                \* base: the number of products when it arrived,
                \* missing: the names its queries did not find
    mode,       \* "seq": requests do not overlap; "race": they may;
                \* "trash": categories are deleted between requests;
                \* "track": an order is tracked
    orders,     \* the Order collection
    track       \* the tracking request's locals, position, log and response

vars == <<products, dims, calls, mode, orders, track>>

(***************************************************************************)
(* Strings                                                                 *)
(***************************************************************************)
Blank == <<>>

RECURSIVE TrimLeft(_)
TrimLeft(s) ==
    IF s # <<>> /\ Head(s) = " " THEN TrimLeft(Tail(s)) ELSE s

RECURSIVE TrimRight(_)
TrimRight(s) ==
    IF s # <<>> /\ s[Len(s)] = " " THEN TrimRight(SubSeq(s, 1, Len(s) - 1)) ELSE s

\* String.prototype.trim
Trim(s) == TrimRight(TrimLeft(s))

LowerChar(c) ==
    CASE c = "A" -> "a"
      [] c = "B" -> "b"
      [] OTHER -> c

\* String.prototype.toLowerCase
ToLowerCase(s) == [i \in 1..Len(s) |-> LowerChar(s[i])]

\* name.trim().toLowerCase(): the key of the resolver's in-memory maps
NormKey(s) == ToLowerCase(Trim(s))

\* .replace(/\s+/g, "-")
RECURSIVE ReplaceWhitespace(_)
ReplaceWhitespace(s) ==
    IF s = <<>> THEN <<>>
    ELSE IF Head(s) = " " THEN <<"-">> \o ReplaceWhitespace(TrimLeft(Tail(s)))
    ELSE <<Head(s)>> \o ReplaceWhitespace(Tail(s))

generateSlug(name) == ReplaceWhitespace(ToLowerCase(Trim(name)))

(***************************************************************************)
(* Rows                                                                    *)
(***************************************************************************)
\* The properties whose values are numbers, booleans and enum words; every
\* other property of a row holds a string.  In a candidate (a preview's
\* output, the bulk save's input) the dimension properties hold identifiers
\* or populated {_id, name, slug} objects.
NumFields == {"maxPurchaseQty", "lowStockWarning"}
BoolFields == {"isActive", "featured"}
WordFields == {"stockStatus"}
PriceFields == {"price"}
FlagFields == {"showStockOut", "canPurchase", "refundable"}
IdFields == {"parentCategory", "category", "brand", "subCategory", "tax", "unit",
             "color", "warranty", "size", "volume"}

\* The value of a price property keeps its JavaScript type: a number or a
\* string, each with the text String(v) gives.
JsNumber(text) == [type |-> "number", text |-> text]
JsString(text) == [type |-> "string", text |-> text]

sTrue == <<"t", "r", "u", "e">>
sFalse == <<"f", "a", "l", "s", "e">>

\* The value of a flag property is a boolean or a string
JsBoolean(b) == [type |-> "boolean", text |-> IF b THEN sTrue ELSE sFalse]

NaN == JsNumber(<<"N", "a", "N">>)
Zero == JsNumber(<<"0">>)

Digits == {"0", "1", "2", "3", "4", "5", "6", "7", "8", "9"}

\* The longest prefix of s made of digits
RECURSIVE DigitPrefix(_)
DigitPrefix(s) ==
    IF s # <<>> /\ Head(s) \in Digits THEN <<Head(s)>> \o DigitPrefix(Tail(s)) ELSE <<>>

RECURSIVE StripZeros(_)
StripZeros(s) ==
    IF Len(s) > 1 /\ Head(s) = "0" THEN StripZeros(Tail(s)) ELSE s

\* Number.parseFloat(v) for a number or for a string of digits (no sign,
\* point or exponent): leading white space is skipped, the longest numeric
\* prefix is read, NaN when there is none.
ParseFloat(v) ==
    IF v.type = "number" THEN v
    ELSE LET digits == DigitPrefix(TrimLeft(v.text))
         IN IF digits = <<>> THEN NaN ELSE JsNumber(StripZeros(digits))

\* !v for the value v of property f of a row
Falsy(f, v) ==
    CASE f \in NumFields -> v = 0
      [] f \in PriceFields -> IF v.type = "number" THEN v \in {Zero, NaN}
                              ELSE v.text = <<>>
      [] f \in BoolFields -> v = FALSE
      [] f \in FlagFields -> IF v.type = "boolean" THEN v.text = sFalse
                             ELSE v.text = <<>>
      [] f \in WordFields -> v = ""
      [] f = "specifications" -> FALSE
      [] OTHER -> v = <<>>

\* row.f is truthy
Truthy(row, f) == f \in DOMAIN row /\ ~Falsy(f, row[f])

\* Object.values(row).every((v) => !v)
AllFalsy(row) == \A f \in DOMAIN row : Falsy(f, row[f])

\* The same for a candidate, whose identifiers and objects are truthy
ProdFalsy(f, v) == IF f \in IdFields THEN FALSE ELSE Falsy(f, v)

ProdTruthy(prod, f) == f \in DOMAIN prod /\ ~ProdFalsy(f, prod[f])

ProdAllFalsy(prod) == \A f \in DOMAIN prod : ProdFalsy(f, prod[f])

\* row.f || ""
StrOr(row, f) == IF Truthy(row, f) THEN row[f] ELSE Blank

\* The record r with property f set to v (r.f = v)
SetProp(r, f, v) == [g \in DOMAIN r \cup {f} |-> IF g = f THEN v ELSE r[g]]

\* The record r with property f set when v is defined (id 0 is undefined)
SetId(r, f, id) == IF id = 0 THEN r ELSE SetProp(r, f, id)

excelToBackendKey ==
    [name |-> "name", slug |-> "slug", SKU |-> "sku", sku |-> "sku",
     category |-> "category", parent_category |-> "parent_category",
     barcode |-> "barcode", buying_price |-> "buyingPrice",
     selling_price |-> "price", offer_price |-> "offerPrice", tax |-> "tax",
     brand |-> "brand", status |-> "stockStatus",
     show_stock_out |-> "showStockOut", can_purchasable |-> "canPurchase",
     refundable |-> "refundable", max_purchase_quantity |-> "maxPurchaseQty",
     low_stock_warning |-> "lowStockWarning", unit |-> "unit",
     weight |-> "weight", tags |-> "tags", description |-> "description",
     discount |-> "discount", specifications |-> "specifications",
     details |-> "details", short_description |-> "shortDescription",
     subCategory |-> "subCategory", warranty |-> "warranty", size |-> "size",
     volume |-> "volume"]

\* The spreadsheet headers of the inputs, in column order (the order of
\* "for (const key in row)"), and key.trim() of each.
Columns == <<"name", "slug", "SKU", "sku", "barcode ", "category", "subCategory",
             "brand", "tax", "unit", "color", "warranty", "size", "volume",
             "specifications", "material", "selling_price", "status",
             "show_stock_out", "refundable">>

TrimKey(key) == IF key = "barcode " THEN "barcode" ELSE key

RECURSIVE SpecEntries(_, _)
SpecEntries(row, cols) ==
    IF cols = <<>> THEN <<>>
    ELSE LET key == Head(cols)
             rest == SpecEntries(row, Tail(cols))
         IN IF /\ key \in DOMAIN row
               /\ TrimKey(key) \notin DOMAIN excelToBackendKey
               /\ row[key] # <<>>
            THEN <<[key |-> TrimKey(key), value |-> row[key]]>> \o rest
            ELSE rest

MapColumnsFirstWins(row, cols) ==
    LET std == {n \in 1..Len(cols) :
                   /\ cols[n] \in DOMAIN row
                   /\ TrimKey(cols[n]) \in DOMAIN excelToBackendKey}
        keys == {excelToBackendKey[TrimKey(cols[n])] : n \in std}
        first(bk) == CHOOSE n \in std :
                        /\ excelToBackendKey[TrimKey(cols[n])] = bk
                        /\ \A m \in std : excelToBackendKey[TrimKey(cols[m])] = bk => n <= m
    IN [bk \in keys |-> row[cols[first(bk)]]]

\* mapped after the loop over the columns cols: mapped[backendKey] = row[key]
\* for each standard column, a later column of the same backend key
\* overwriting an earlier one.
RECURSIVE MapColumns(_, _)
MapColumns(row, cols) ==
    IF cols = <<>> THEN [bk \in {} |-> <<>>]
    ELSE LET key == cols[Len(cols)]
             mapped == MapColumns(row, SubSeq(cols, 1, Len(cols) - 1))
         IN IF key \in DOMAIN row /\ TrimKey(key) \in DOMAIN excelToBackendKey
            THEN SetProp(mapped, excelToBackendKey[TrimKey(key)], row[key])
            ELSE mapped

remapRow(row) ==
    LET mapped == MapColumns(row, Columns)
        specifications == SpecEntries(row, Columns)
    IN IF Len(specifications) > 0
       THEN SetProp(mapped, "specifications", specifications)
       ELSE mapped

(***************************************************************************)
(* Dimension resolver                                                      *)
(***************************************************************************)
Kinds == {"Category", "Brand", "SubCategory", "Tax", "Unit", "Color",
          "Warranty", "Size", "Volume"}

\* The row property that names each dimension and the collection it is
\* resolved in, in the order the handler queries and creates them.
ExcelDims ==
    <<[field |-> "category", kind |-> "Category"],
      [field |-> "brand", kind |-> "Brand"],
      [field |-> "subCategory", kind |-> "SubCategory"],
      [field |-> "tax", kind |-> "Tax"],
      [field |-> "unit", kind |-> "Unit"],
      [field |-> "color", kind |-> "Color"],
      [field |-> "warranty", kind |-> "Warranty"],
      [field |-> "size", kind |-> "Size"],
      [field |-> "volume", kind |-> "Volume"]>>

CsvDims ==
    <<[field |-> "parent_category", kind |-> "Category"],
      [field |-> "category", kind |-> "SubCategory"],
      [field |-> "brand", kind |-> "Brand"],
      [field |-> "tax", kind |-> "Tax"],
      [field |-> "unit", kind |-> "Unit"]>>

PathDims(op) == IF op = "excel" THEN ExcelDims ELSE CsvDims

\* The rows the resolver and the validator read: rows.map(remapRow) in the
\* Excel path, csvData as submitted in the CSV path.
PathRows(op, rows) ==
    IF op = "excel" THEN [i \in 1..Len(rows) |-> remapRow(rows[i])] ELSE rows

SeqRange(s) == {s[i] : i \in 1..Len(s)}

\* uniqueXNames: String(row.f).trim() of every row with a truthy f, as a Set
\* (each name once, in the order of first appearance).
RECURSIVE UniqueNames(_, _)
UniqueNames(rows, field) ==
    IF rows = <<>> THEN <<>>
    ELSE LET n == Len(rows)
             before == UniqueNames(SubSeq(rows, 1, n - 1), field)
             row == rows[n]
         IN IF Truthy(row, field) /\ Trim(row[field]) \notin SeqRange(before)
            THEN Append(before, Trim(row[field]))
            ELSE before

MapGet(m, key) == IF key \in DOMAIN m THEN m[key] ELSE 0

MapSet(m, key, id) == [k \in DOMAIN m \cup {key} |-> IF k = key THEN id ELSE m[k]]

RECURSIVE FillMapRawKey(_, _, _)
FillMapRawKey(coll, names, n) ==
    IF n = 0 THEN <<>>
    ELSE LET m == FillMapRawKey(coll, names, n - 1)
         IN IF coll[n].name \in SeqRange(names)
            THEN MapSet(m, coll[n].name, n)
            ELSE m

\* Model.find({ name: { $in: names } }) and the forEach that fills the map:
\* the query matches the stored name exactly, the map is keyed by the
\* trimmed, lower-cased stored name, a later entity replacing an earlier one.
RECURSIVE FillMap(_, _, _)
FillMap(coll, names, n) ==
    IF n = 0 THEN <<>>
    ELSE LET m == FillMap(coll, names, n - 1)
         IN IF coll[n].name \in SeqRange(names)
            THEN MapSet(m, NormKey(coll[n].name), n)
            ELSE m

FindByNames(coll, names) == FillMap(coll, names, Len(coll))

\* The names still to create, in the order of the create loops: every unique
\* name of every dimension whose key the map of its kind lacks.
RECURSIVE PendingFrom(_, _, _)
PendingFrom(pd, prows, maps) ==
    IF pd = <<>> THEN <<>>
    ELSE LET d == Head(pd)
             names == UniqueNames(prows, d.field)
             missing == SelectSeq(names, LAMBDA nm : NormKey(nm) \notin DOMAIN maps[d.kind])
         IN [j \in 1..Len(missing) |-> [kind |-> d.kind, name |-> missing[j]]]
            \o PendingFrom(Tail(pd), prows, maps)

Pending(op, rows, maps) == PendingFrom(PathDims(op), PathRows(op, rows), maps)

\* The properties that pair a subcategory with its parent in each path
SubField(op) == IF op = "excel" THEN "subCategory" ELSE "category"
ParentField(op) == IF op = "excel" THEN "category" ELSE "parent_category"

ParentCategoryIdLast(op, prows, maps, name) ==
    LET hits == {i \in 1..Len(prows) :
                    /\ Truthy(prows[i], SubField(op))
                    /\ NormKey(prows[i][SubField(op)]) = NormKey(name)
                    /\ Truthy(prows[i], ParentField(op))}
    IN IF hits = {} THEN 0
       ELSE LET last == CHOOSE i \in hits : \A j \in hits : i >= j
            IN MapGet(maps["Category"], NormKey(prows[last][ParentField(op)]))

\* rowWithParent: the first row naming this subcategory with a truthy parent;
\* parentCategoryId is its parent's entry of the category map (0: undefined).
ParentCategoryId(op, prows, maps, name) ==
    LET hits == {i \in 1..Len(prows) :
                    /\ Truthy(prows[i], SubField(op))
                    /\ NormKey(prows[i][SubField(op)]) = NormKey(name)
                    /\ Truthy(prows[i], ParentField(op))}
    IN IF hits = {} THEN 0
       ELSE LET first == CHOOSE i \in hits : \A j \in hits : i <= j
            IN MapGet(maps["Category"], NormKey(prows[first][ParentField(op)]))

DefaultTaxRate == 5
MaxSymbolLen == 3

\* The document passed to Model.create for a missing name
NewEntity(op, kind, name, prows, maps) ==
    LET nm == Trim(name) IN
    CASE kind \in {"Category", "Brand"} ->
            [name |-> nm, slug |-> generateSlug(name)]
      [] kind = "SubCategory" ->
            SetId([name |-> nm, slug |-> generateSlug(name)], "category",
                  ParentCategoryId(op, prows, maps, name))
      [] kind = "Tax" ->
            IF op = "csv" THEN [name |-> nm, rate |-> DefaultTaxRate]
            ELSE [name |-> nm]
      [] kind = "Unit" ->
            [name |-> nm,
             symbol |-> IF Len(nm) <= MaxSymbolLen THEN nm ELSE <<nm[1]>>,
             type |-> "piece"]
      [] OTHER -> [name |-> nm]

(***************************************************************************)
(* Duplicate detector, row validator and mapper                            *)
(***************************************************************************)
\* rows.map((r) => r.name).filter(Boolean)
TruthyValues(rows, f) == {rows[i][f] : i \in {j \in 1..Len(rows) : Truthy(rows[j], f)}}

\* Product.find({ $or: [{ name: { $in: names } }, { slug: { $in: slugs } }] })
ExistingProducts(prods, names, slugs) ==
    {i \in 1..Len(prods) : prods[i].name \in names \/ prods[i].slug \in slugs}

ExistingNames(prods, rows) ==
    {prods[i].name :
        i \in ExistingProducts(prods, TruthyValues(rows, "name"), TruthyValues(rows, "slug"))}

ExistingSlugs(prods, rows) ==
    {prods[i].slug :
        i \in ExistingProducts(prods, TruthyValues(rows, "name"), TruthyValues(rows, "slug"))}

allowedStockStatus == {"Available Product", "Out of Stock", "PreOrder"}

StockStatusAsGiven(row) ==
    IF "stockStatus" \in DOMAIN row /\ row.stockStatus # ""
    THEN row.stockStatus ELSE "Available Product"

\* let stockStatus = row.stockStatus || "Available Product"
\* if (!allowedStockStatus.includes(stockStatus)) stockStatus = "Available Product"
StockStatusOf(row) ==
    LET stockStatus == IF "stockStatus" \in DOMAIN row /\ row.stockStatus # ""
                       THEN row.stockStatus ELSE "Available Product"
    IN IF stockStatus \in allowedStockStatus THEN stockStatus ELSE "Available Product"

DefaultMaxPurchaseQty == 10
DefaultLowStockWarning == 5

\* row.f || d
NumOr(row, f, d) == IF f \in DOMAIN row /\ row[f] # 0 THEN row[f] ELSE d

\* row.f !== undefined ? Boolean(row.f) : d
BoolOr(row, f, d) == IF f \in DOMAIN row THEN ~Falsy(f, row[f]) ELSE d

\* row.f !== undefined ? Boolean(row.f) : d
FlagOr(row, f, d) == JsBoolean(IF f \in DOMAIN row THEN ~Falsy(f, row[f]) ELSE d)

\* row.f === "true" || row.f === true
IsTrue(row, f) == JsBoolean(f \in DOMAIN row /\ row[f].text = sTrue)

ResolveExact(row, f, map) == IF Truthy(row, f) THEN MapGet(map, row[f]) ELSE 0

\* row.f ? map.get(String(row.f).trim().toLowerCase()) : undefined
Resolve(row, f, map) == IF Truthy(row, f) THEN MapGet(map, NormKey(row[f])) ELSE 0

EmptyRow == "Empty row"
DuplicateRow == "Duplicate product name or slug"
MissingCsv == "Missing required fields (name, parent_category)"
MissingSave == "Missing required fields"

IsDuplicateBySlug(row, exNames, exSlugs) ==
    Truthy(row, "slug") /\ row.slug \in exSlugs

\* (row.name && existingNames.has(row.name)) || (row.slug && existingSlugs.has(row.slug))
IsDuplicate(row, exNames, exSlugs) ==
    \/ Truthy(row, "name") /\ row.name \in exNames
    \/ Truthy(row, "slug") /\ row.slug \in exSlugs

\* The object pushed to previewProducts by POST /bulk-preview
ExcelCandidate(row, maps) ==
    LET c0 == [name |-> StrOr(row, "name"),
               price |-> IF Truthy(row, "price") THEN row.price ELSE Zero,
               slug |-> StrOr(row, "slug"),
               stockStatus |-> StockStatusOf(row),
               lowStockWarning |-> NumOr(row, "lowStockWarning", DefaultLowStockWarning),
               maxPurchaseQty |-> NumOr(row, "maxPurchaseQty", DefaultMaxPurchaseQty),
               isActive |-> BoolOr(row, "isActive", TRUE),
               canPurchase |-> FlagOr(row, "canPurchase", TRUE),
               showStockOut |-> FlagOr(row, "showStockOut", TRUE),
               refundable |-> FlagOr(row, "refundable", TRUE),
               featured |-> BoolOr(row, "featured", FALSE)]
        c1 == SetId(c0, "category", Resolve(row, "category", maps["Category"]))
        c2 == SetId(c1, "brand", Resolve(row, "brand", maps["Brand"]))
        c3 == SetId(c2, "unit", Resolve(row, "unit", maps["Unit"]))
        c4 == SetId(c3, "color", Resolve(row, "color", maps["Color"]))
        c5 == SetId(c4, "tax", Resolve(row, "tax", maps["Tax"]))
        c6 == SetId(c5, "subCategory", Resolve(row, "subCategory", maps["SubCategory"]))
        c7 == SetId(c6, "warranty", Resolve(row, "warranty", maps["Warranty"]))
        c8 == SetId(c7, "size", Resolve(row, "size", maps["Size"]))
    IN SetId(c8, "volume", Resolve(row, "volume", maps["Volume"]))

\* The product object pushed to previewProducts by POST /bulk-preview-csv
CsvCandidate(row, maps) ==
    LET c0 == [name |-> StrOr(row, "name"),
               slug |-> IF Truthy(row, "slug") THEN row.slug
                        ELSE generateSlug(StrOr(row, "name")),
               price |-> LET parsed == IF "price" \in DOMAIN row
                                       THEN ParseFloat(row.price) ELSE NaN
                         IN IF Falsy("price", parsed) THEN Zero ELSE parsed,
               stockStatus |-> StockStatusOf(row),
               showStockOut |-> IsTrue(row, "showStockOut"),
               canPurchase |-> IsTrue(row, "canPurchase"),
               refundable |-> IsTrue(row, "refundable"),
               maxPurchaseQty |-> NumOr(row, "maxPurchaseQty", DefaultMaxPurchaseQty),
               lowStockWarning |-> NumOr(row, "lowStockWarning", DefaultLowStockWarning),
               isActive |-> TRUE,
               featured |-> FALSE]
        c1 == SetId(c0, "parentCategory",
                    MapGet(maps["Category"], NormKey(row.parent_category)))
        c2 == SetId(c1, "category", Resolve(row, "category", maps["SubCategory"]))
        c3 == SetId(c2, "brand", Resolve(row, "brand", maps["Brand"]))
        c4 == SetId(c3, "tax", Resolve(row, "tax", maps["Tax"]))
    IN SetId(c4, "unit", Resolve(row, "unit", maps["Unit"]))

RowNumberNoHeader(i) == i - 1

\* row: i + 2 for the 0-based index i, which is the 1-based index + 1
RowNumber(i) == i + 1

PreviewOutcomeSameFields(op, i, row, maps, exNames, exSlugs) ==
    IF AllFalsy(row)
    THEN [valid |-> FALSE, row |-> RowNumber(i), reason |-> EmptyRow, data |-> row]
    ELSE IF ~Truthy(row, "name") \/ ~Truthy(row, "parent_category")
    THEN [valid |-> FALSE, row |-> RowNumber(i), reason |-> MissingCsv, data |-> row]
    ELSE IF IsDuplicate(row, exNames, exSlugs)
    THEN [valid |-> FALSE, row |-> RowNumber(i), reason |-> DuplicateRow, data |-> row]
    ELSE [valid |-> TRUE,
          product |-> IF op = "csv" THEN CsvCandidate(row, maps)
                      ELSE ExcelCandidate(row, maps)]

\* One iteration of the validation loop of a preview: the row's outcome.
PreviewOutcome(op, i, row, maps, exNames, exSlugs) ==
    IF AllFalsy(row)
    THEN [valid |-> FALSE, row |-> RowNumber(i), reason |-> EmptyRow, data |-> row]
    ELSE IF op = "csv" /\ (~Truthy(row, "name") \/ ~Truthy(row, "parent_category"))
    THEN [valid |-> FALSE, row |-> RowNumber(i), reason |-> MissingCsv, data |-> row]
    ELSE IF IsDuplicate(row, exNames, exSlugs)
    THEN [valid |-> FALSE, row |-> RowNumber(i), reason |-> DuplicateRow, data |-> row]
    ELSE [valid |-> TRUE,
          product |-> IF op = "csv" THEN CsvCandidate(row, maps)
                      ELSE ExcelCandidate(row, maps)]

PushOutcomeSkipEmpty(acc, out) ==
    IF out.valid
    THEN [acc EXCEPT !.previewProducts = Append(@, out.product)]
    ELSE IF out.reason = EmptyRow THEN acc
    ELSE [acc EXCEPT !.invalidRows =
             Append(@, [row |-> out.row, reason |-> out.reason, data |-> out.data])]

\* previewProducts.push(...) or invalidRows.push({ row, reason, data })
PushOutcome(acc, out) ==
    IF out.valid
    THEN [acc EXCEPT !.previewProducts = Append(@, out.product)]
    ELSE [acc EXCEPT !.invalidRows =
             Append(@, [row |-> out.row, reason |-> out.reason, data |-> out.data])]

\* The validation loop: previewProducts and invalidRows after rows 1..n
RECURSIVE ValidateRows(_, _, _, _, _, _)
ValidateRows(op, prows, n, maps, exNames, exSlugs) ==
    IF n = 0 THEN [previewProducts |-> <<>>, invalidRows |-> <<>>]
    ELSE LET acc == ValidateRows(op, prows, n - 1, maps, exNames, exSlugs)
             out == PreviewOutcome(op, n, prows[n], maps, exNames, exSlugs)
         IN PushOutcome(acc, out)

\* Model.findById(id).select("name slug"), as { _id, name, slug }
Display(coll, id) == [_id |-> id, name |-> coll[id].name, slug |-> coll[id].slug]

\* populated.f = { _id, name, slug } when f holds an identifier that exists
Populate(prod, f, coll) ==
    IF f \in DOMAIN prod /\ prod[f] \in 1..Len(coll)
    THEN SetProp(prod, f, Display(coll, prod[f]))
    ELSE prod

PopulateCandidate(op, prod, d) ==
    IF op = "excel"
    THEN Populate(Populate(Populate(prod, "category", d["Category"]),
                           "subCategory", d["SubCategory"]), "brand", d["Brand"])
    ELSE Populate(Populate(Populate(prod, "parentCategory", d["Category"]),
                           "category", d["SubCategory"]), "brand", d["Brand"])

(***************************************************************************)
(* Bulk save                                                               *)
(***************************************************************************)
\* One clause { f: prod.f } of a query: an undefined value matches only a
\* document that lacks the property.
MatchField(doc, f, prod) ==
    IF f \in DOMAIN prod THEN f \in DOMAIN doc /\ doc[f] = prod[f]
    ELSE f \notin DOMAIN doc

FindExistingBySlug(prods, prod) ==
    \E i \in 1..Len(prods) : MatchField(prods[i], "slug", prod)

\* Product.findOne({ $or: [{ name: prod.name }, { slug: prod.slug }] })
FindExisting(prods, prod) ==
    \E i \in 1..Len(prods) :
        MatchField(prods[i], "name", prod) \/ MatchField(prods[i], "slug", prod)

\* The identifier a reference property is cast to: the object's _id
RefId(v) == v._id

CopyRef(doc, prod, f, g) ==
    IF g \in DOMAIN prod THEN SetProp(doc, f, RefId(prod[g])) ELSE doc

CopyId(doc, prod, f) == IF f \in DOMAIN prod THEN SetProp(doc, f, prod[f]) ELSE doc

ProdStr(prod, f) == IF ProdTruthy(prod, f) THEN prod[f] ELSE Blank

\* new Product({ ... }) of POST /bulk-save
NewProduct(prod) ==
    LET d0 == [name |-> ProdStr(prod, "name"),
               slug |-> IF ProdTruthy(prod, "slug") THEN prod.slug
                        ELSE generateSlug(ProdStr(prod, "name")),
               stockStatus |-> StockStatusOf(prod),
               showStockOut |-> FlagOr(prod, "showStockOut", TRUE),
               canPurchase |-> FlagOr(prod, "canPurchase", TRUE),
               refundable |-> FlagOr(prod, "refundable", TRUE),
               maxPurchaseQty |-> NumOr(prod, "maxPurchaseQty", DefaultMaxPurchaseQty),
               lowStockWarning |-> NumOr(prod, "lowStockWarning", DefaultLowStockWarning),
               isActive |-> BoolOr(prod, "isActive", TRUE),
               featured |-> BoolOr(prod, "featured", FALSE)]
        d1 == CopyRef(d0, prod, "parentCategory", "parentCategory")
        d2 == CopyRef(d1, prod, "category", "category")
        d3 == CopyRef(d2, prod, "subCategory", "category")
        d4 == CopyRef(d3, prod, "brand", "brand")
    IN CopyId(CopyId(d4, prod, "tax"), prod, "unit")

StoreError == "store error"

SaveCheckReasonNoRecheck(prods, prod, threw) ==
    IF ProdAllFalsy(prod) THEN EmptyRow
    ELSE IF threw THEN StoreError
    ELSE IF ~ProdTruthy(prod, "name") \/ ~ProdTruthy(prod, "parentCategory")
    THEN MissingSave
    ELSE ""

\* What one iteration of the save loop decides before product.save():
\* a failure reason, or "" when the row goes on to be persisted.
\* threw: Product.findOne rejected.
SaveCheckReason(prods, prod, threw) ==
    IF ProdAllFalsy(prod) THEN EmptyRow
    ELSE IF threw THEN StoreError
    ELSE IF FindExisting(prods, prod) THEN DuplicateRow
    ELSE IF ~ProdTruthy(prod, "name") \/ ~ProdTruthy(prod, "parentCategory")
    THEN MissingSave
    ELSE ""

\* The populated copy of a saved product returned in results
PopulateSaved(doc, d) ==
    LET show(x, f, coll) ==
            IF f \in DOMAIN x /\ x[f] \in 1..Len(coll)
            THEN SetProp(x, f, Display(coll, x[f])) ELSE x
    IN show(show(show(doc, "parentCategory", d["Category"]),
                 "category", d["SubCategory"]), "brand", d["Brand"])

PopulateResult(res, d) ==
    IF res.status = "failed" THEN res
    ELSE [res EXCEPT !.product = PopulateSaved(res.product, d)]

(***************************************************************************)
(* Inputs and stores                                                       *)
(***************************************************************************)
sa == <<"a">>
sA == <<"A">>
sb == <<"b">>
sB == <<"B">>
sApad == <<"A", " ">>
sab == <<"a", " ", "b">>
sabSlug == <<"a", "-", "b">>
sLong == <<"a", "b", "a", "b">>

\* Rows of an uploaded sheet, keyed by header
ExcelRows ==
    {[name |-> Blank, material |-> Blank],
     [name |-> Blank, material |-> sb],
     [name |-> sa, category |-> sA, selling_price |-> JsNumber(<<"9">>),
      refundable |-> JsString(sFalse)],
     [name |-> sA, category |-> sApad, subCategory |-> sb, brand |-> sb,
      status |-> "Out of Stock"] @@ ("barcode " :> sa),
     [category |-> sA, brand |-> sb],
     [name |-> sb, slug |-> sa, status |-> "Backordered", SKU |-> sa, sku |-> sb,
      specifications |-> sa, material |-> sb],
     [name |-> sab, subCategory |-> sB, tax |-> sa, unit |-> sLong, color |-> sa,
      warranty |-> sa, size |-> sa, volume |-> sa],
     [name |-> sB, category |-> sb, subCategory |-> sb,
      selling_price |-> JsString(<<"9">>), show_stock_out |-> JsBoolean(FALSE)]}

\* Rows of a csvData payload
CsvRows ==
    {[name |-> Blank, parent_category |-> Blank],
     [name |-> Blank, material |-> sb],
     [name |-> sa, parent_category |-> sA, stockStatus |-> "",
      refundable |-> JsString(sTrue)],
     [name |-> sa, category |-> sb, price |-> JsString(<<"9">>)],
     [parent_category |-> sA, slug |-> sa],
     [name |-> sA, parent_category |-> sApad, category |-> sB, brand |-> sb,
      stockStatus |-> "PreOrder"],
     [name |-> sab, slug |-> sa, parent_category |-> sa, category |-> sb,
      tax |-> sa, unit |-> sLong, stockStatus |-> "Backordered"],
     [name |-> sApad, parent_category |-> sb, category |-> sb,
      price |-> JsString(<<"9">>)]}

CategoryRef == [_id |-> 1, name |-> sA, slug |-> sa]

\* Products of a bulk-save payload
SaveRows ==
    {[name |-> Blank, slug |-> Blank],
     [name |-> sa, parentCategory |-> CategoryRef],
     [name |-> sa, slug |-> sa],
     [slug |-> sa, parentCategory |-> CategoryRef],
     [name |-> sA, slug |-> sa, parentCategory |-> CategoryRef],
     [name |-> sab, parentCategory |-> CategoryRef, stockStatus |-> "Out of Stock",
      refundable |-> JsString(sFalse)],
     [name |-> sb, slug |-> sabSlug, parentCategory |-> CategoryRef,
      category |-> [_id |-> 1, name |-> sB, slug |-> sb],
      brand |-> [_id |-> 1, name |-> sb, slug |-> sb],
      tax |-> 1, unit |-> 1, stockStatus |-> "Backordered"]}

MaxRows == 2

SeqsUpTo(S, n) == UNION {[1..k -> S] : k \in 0..n}

Ops == {"excel", "csv", "save"}

RowsOf(op) ==
    CASE op = "excel" -> ExcelRows
      [] op = "csv" -> CsvRows
      [] OTHER -> SaveRows

Inputs(op) == SeqsUpTo(RowsOf(op), MaxRows)

\* The payloads of overlapping requests, and of the requests that follow
\* or precede the deletion of a category
RaceInputs(op) ==
    CASE op = "excel" -> {<<[name |-> sa, category |-> sA]>>,
                          <<[name |-> sb, category |-> sA, brand |-> sb]>>}
      [] op = "csv" -> {<<[name |-> sa, parent_category |-> sA]>>,
                        <<[name |-> sb, parent_category |-> sa, category |-> sb]>>}
      [] OTHER -> {<<[name |-> sa, parentCategory |-> CategoryRef]>>,
                   <<[name |-> sa, slug |-> sa, parentCategory |-> CategoryRef],
                     [name |-> sb, parentCategory |-> CategoryRef]>>}

EmptyDims == [k \in Kinds |-> <<>>]

\* The stores a behaviour starts from: each holds at most one entity per
\* kind and normalized name, and products of distinct names and slugs.
InitStores ==
    {[products |-> <<>>, dims |-> EmptyDims],
     [products |-> <<NewProduct([name |-> sa, parentCategory |-> CategoryRef])>>,
      dims |-> [EmptyDims EXCEPT !["Category"] = <<[name |-> sA, slug |-> sa]>>]],
     [products |-> <<NewProduct([name |-> sA, slug |-> sb, parentCategory |-> CategoryRef])>>,
      dims |-> [EmptyDims EXCEPT
                  !["Category"] = <<[name |-> sa, slug |-> sa]>>,
                  !["SubCategory"] = <<[name |-> sB, slug |-> sb, category |-> 1]>>,
                  !["Brand"] = <<[name |-> sb, slug |-> sb]>>,
                  !["Tax"] = <<[name |-> sa, rate |-> DefaultTaxRate]>>]]}

(***************************************************************************)
(* Requests                                                                *)
(***************************************************************************)
CallIds == {"c1", "c2"}

EmptyMaps == [k \in Kinds |-> <<>>]

NoResponse == [status |-> 0]

IdleCall ==
    [op |-> "none", pc |-> "idle", rows |-> <<>>, qi |-> 0, maps |-> EmptyMaps,
     previewProducts |-> <<>>, invalidRows |-> <<>>,
     i |-> 0, results |-> <<>>, success |-> 0, failed |-> 0,
     base |-> 0, missing |-> {}, resp |-> NoResponse]

InFlight == {"query", "create", "products", "check", "persist", "populate"}
Ended == {"done", "failed", "crashed"}

\* What the second request may submit when requests do not overlap: the
\* first request's payload again, or the candidates the first one previewed.
FollowUps(op) ==
    LET first == calls["c1"] IN
    (IF first.op = op THEN {first.rows} ELSE {})
    \cup (IF /\ op = "save"
             /\ first.op \in {"excel", "csv"}
             /\ first.pc = "done"
          THEN {first.resp.previewProducts} ELSE {})

AllowedInputs(c, op) ==
    IF mode \in {"race", "trash"} THEN RaceInputs(op)
    ELSE IF c = "c1" THEN Inputs(op)
    ELSE FollowUps(op)

\* A request arrives and runs to its first await.
Start(c) ==
    /\ calls[c].pc = "idle"
    /\ c = "c2" => calls["c1"].pc # "idle"
    /\ mode # "race" => \A d \in CallIds : calls[d].pc \notin InFlight
    /\ \E op \in Ops : \E rows \in AllowedInputs(c, op) :
          calls' = [calls EXCEPT ![c] =
             IF op = "save"
             THEN IF Len(rows) = 0
                  THEN [IdleCall EXCEPT !.op = op, !.pc = "done", !.rows = rows,
                           !.resp = [status |-> 400, message |-> "No products to save"]]
                  ELSE [IdleCall EXCEPT !.op = op, !.pc = "check", !.rows = rows,
                           !.i = 1, !.base = Len(products)]
             ELSE [IdleCall EXCEPT !.op = op, !.pc = "query", !.rows = rows,
                      !.qi = 1, !.base = Len(products)]]
    /\ UNCHANGED <<products, dims, mode, orders, track>>

AfterResolveNoCreate(op, rows, maps) == "products"

\* pc after the resolver's last query or create: the create loop awaits
\* only when a name is missing.
AfterResolve(op, rows, maps) ==
    IF Pending(op, rows, maps) = <<>> THEN "products" ELSE "create"

\* await Model.find({ name: { $in: [...uniqueNames] } }) of one dimension
Query(c) ==
    LET call == calls[c]
        pd == PathDims(call.op)
        d == pd[call.qi]
        found == FindByNames(dims[d.kind],
                             UniqueNames(PathRows(call.op, call.rows), d.field))
        maps == [call.maps EXCEPT ![d.kind] = found]
    IN /\ call.pc = "query"
       /\ calls' = [calls EXCEPT ![c] =
             IF call.qi < Len(pd)
             THEN [call EXCEPT !.maps = maps, !.qi = call.qi + 1]
             ELSE [call EXCEPT !.maps = maps,
                      !.missing = SeqRange(Pending(call.op, call.rows, maps)),
                      !.pc = AfterResolve(call.op, call.rows, maps)]]
       /\ UNCHANGED <<products, dims, mode, orders, track>>

InsertIfAbsent(coll, entity) ==
    IF \E i \in 1..Len(coll) : coll[i].name = entity.name THEN coll
    ELSE Append(coll, entity)

\* Model.create(entity): the collection gains the document
Insert(coll, entity) == Append(coll, entity)

\* await Model.create({...}) of the next missing name, then map.set
Create(c) ==
    LET call == calls[c]
        p == Head(Pending(call.op, call.rows, call.maps))
        entity == NewEntity(call.op, p.kind, p.name,
                            PathRows(call.op, call.rows), call.maps)
        maps == [call.maps EXCEPT
                   ![p.kind] = MapSet(@, NormKey(p.name), Len(dims[p.kind]) + 1)]
    IN /\ call.pc = "create"
       /\ dims' = [dims EXCEPT ![p.kind] = Insert(@, entity)]
       /\ calls' = [calls EXCEPT ![c] =
             [call EXCEPT !.maps = maps,
                 !.pc = AfterResolve(call.op, call.rows, maps)]]
       /\ UNCHANGED <<products, mode, orders, track>>

ValidateAndStore(c) ==
    LET call == calls[c]
        prows == PathRows(call.op, call.rows)
        out == ValidateRows(call.op, prows, Len(prows), call.maps,
                            ExistingNames(products, call.rows),
                            ExistingSlugs(products, call.rows))
    IN /\ call.pc = "products"
       /\ calls' = [calls EXCEPT ![c] =
             [call EXCEPT !.previewProducts = out.previewProducts,
                 !.invalidRows = out.invalidRows, !.pc = "populate"]]
       /\ products' = products \o out.previewProducts
       /\ UNCHANGED <<dims, mode, orders, track>>

\* await Product.find(...), then the validation loop
Validate(c) ==
    LET call == calls[c]
        prows == PathRows(call.op, call.rows)
        out == ValidateRows(call.op, prows, Len(prows), call.maps,
                            ExistingNames(products, call.rows),
                            ExistingSlugs(products, call.rows))
    IN /\ call.pc = "products"
       /\ calls' = [calls EXCEPT ![c] =
             [call EXCEPT !.previewProducts = out.previewProducts,
                 !.invalidRows = out.invalidRows, !.pc = "populate"]]
       /\ UNCHANGED <<products, dims, mode, orders, track>>

\* The populate of the accepted rows and res.json(...)
Respond(c) ==
    LET call == calls[c]
        body == IF call.op = "save"
                THEN [status |-> 200, message |-> "Bulk save complete",
                      total |-> Len(call.rows), success |-> call.success,
                      failed |-> call.failed,
                      results |-> [k \in 1..Len(call.results) |->
                                     PopulateResult(call.results[k], dims)]]
                ELSE [status |-> 200,
                      previewProducts |->
                         [k \in 1..Len(call.previewProducts) |->
                            PopulateCandidate(call.op, call.previewProducts[k], dims)],
                      invalidRows |-> call.invalidRows,
                      total |-> Len(call.rows),
                      valid |-> Len(call.previewProducts),
                      invalid |-> Len(call.invalidRows)]
    IN /\ call.pc = "populate"
       /\ calls' = [calls EXCEPT ![c] = [call EXCEPT !.pc = "done", !.resp = body]]
       /\ UNCHANGED <<products, dims, mode, orders, track>>

FailWithPartialReport(c) ==
    LET call == calls[c] IN
    /\ \/ call.op \in {"excel", "csv"} /\ call.pc \in {"query", "create", "products", "populate"}
       \/ call.op = "save" /\ call.pc = "populate"
    /\ calls' = [calls EXCEPT ![c] =
          [IdleCall EXCEPT !.op = call.op, !.rows = call.rows, !.base = call.base,
              !.pc = "failed",
              !.resp = [status |-> 500, message |-> "failed", error |-> StoreError,
                        previewProducts |-> call.previewProducts,
                        invalidRows |-> call.invalidRows,
                        results |-> call.results]]]
    /\ UNCHANGED <<products, dims, mode, orders, track>>

\* A store operation outside the save loop's try rejects: the catch of a
\* preview (or the error middleware after a save) answers 500 with the
\* message alone; the handler's locals are dropped.
Fail(c) ==
    LET call == calls[c] IN
    /\ \/ call.op \in {"excel", "csv"} /\ call.pc \in {"query", "create", "products", "populate"}
       \/ call.op = "save" /\ call.pc = "populate"
    /\ calls' = [calls EXCEPT ![c] =
          [IdleCall EXCEPT !.op = call.op, !.rows = call.rows, !.base = call.base,
              !.pc = "failed",
              !.resp = [status |-> 500, message |-> "failed", error |-> StoreError]]]
    /\ UNCHANGED <<products, dims, mode, orders, track>>

\* The process dies while the request is in flight: its locals are lost,
\* nothing is answered, and what it wrote to the store stays.
Crash(c) ==
    /\ calls[c].pc \in InFlight
    /\ calls' = [calls EXCEPT ![c] =
          [IdleCall EXCEPT !.op = calls[c].op, !.rows = calls[c].rows,
              !.base = calls[c].base, !.pc = "crashed"]]
    /\ UNCHANGED <<products, dims, mode, orders, track>>

\* pc after row i of the save loop
AfterRow(call) == IF call.i < Len(call.rows) THEN "check" ELSE "populate"

SaveCheckAbortOnThrow(c) ==
    LET call == calls[c]
        prod == call.rows[call.i]
    IN /\ call.pc = "check"
       /\ \E threw \in BOOLEAN :
            LET reason == SaveCheckReason(products, prod, threw) IN
            /\ threw => ~ProdAllFalsy(prod)
            /\ calls' = [calls EXCEPT ![c] =
                  IF reason = ""
                  THEN [call EXCEPT !.pc = "persist"]
                  ELSE [call EXCEPT
                          !.results = Append(@, [index |-> call.i - 1, status |-> "failed",
                                                 reason |-> reason, product |-> prod]),
                          !.failed = @ + 1,
                          !.i = @ + 1,
                          !.pc = IF reason = StoreError THEN "populate"
                                 ELSE AfterRow(call)]]
       /\ UNCHANGED <<products, dims, mode, orders, track>>

\* One iteration of the save loop up to product.save()
SaveCheck(c) ==
    LET call == calls[c]
        prod == call.rows[call.i]
    IN /\ call.pc = "check"
       /\ \E threw \in BOOLEAN :
            LET reason == SaveCheckReason(products, prod, threw) IN
            /\ threw => ~ProdAllFalsy(prod)
            /\ calls' = [calls EXCEPT ![c] =
                  IF reason = ""
                  THEN [call EXCEPT !.pc = "persist"]
                  ELSE [call EXCEPT
                          !.results = Append(@, [index |-> call.i - 1, status |-> "failed",
                                                 reason |-> reason, product |-> prod]),
                          !.failed = @ + 1,
                          !.i = @ + 1,
                          !.pc = AfterRow(call)]]
       /\ UNCHANGED <<products, dims, mode, orders, track>>

\* await product.save(): the document is inserted, or the save rejects and
\* the catch records the row as failed.
SavePersist(c) ==
    LET call == calls[c]
        prod == call.rows[call.i]
        doc == NewProduct(prod)
    IN /\ call.pc = "persist"
       /\ \/ /\ products' = Append(products, doc)
             /\ calls' = [calls EXCEPT ![c] =
                   [call EXCEPT
                      !.results = Append(@, [index |-> call.i - 1, status |-> "success",
                                             product |-> doc]),
                      !.success = @ + 1,
                      !.i = @ + 1,
                      !.pc = AfterRow(call)]]
          \/ /\ products' = products
             /\ calls' = [calls EXCEPT ![c] =
                   [call EXCEPT
                      !.results = Append(@, [index |-> call.i - 1, status |-> "failed",
                                             reason |-> StoreError, product |-> prod]),
                      !.failed = @ + 1,
                      !.i = @ + 1,
                      !.pc = AfterRow(call)]]
       /\ UNCHANGED <<dims, mode, orders, track>>

(***************************************************************************)
(* Order tracking: POST /api/orders/track                                  *)
(***************************************************************************)
HexDigits == Digits \cup {"a", "b", "c", "d", "e", "f", "A", "B", "C", "D", "E", "F"}

ObjectIdLen == 24

\* cleanOrderId.match(/^[0-9a-fA-F]{24}$/)
LooksLikeObjectId(s) == Len(s) = ObjectIdLen /\ \A n \in 1..Len(s) : s[n] \in HexDigits

\* s.includes(t)
Includes(s, t) ==
    \E n \in 0..(Len(s) - Len(t)) : SubSeq(s, n + 1, n + Len(t)) = t

\* s.slice(-n)
SliceLast(s, n) == IF Len(s) <= n THEN s ELSE SubSeq(s, Len(s) - n + 1, Len(s))

\* orderId.toString().replace(/^#/, "").trim()
CleanOrderId(orderId) ==
    Trim(IF orderId # <<>> /\ Head(orderId) = "#" THEN Tail(orderId) ELSE orderId)

\* { _id: id }: the string is cast to an ObjectId, whose text is lower case
IdIs(o, id) == o._id = ToLowerCase(id)

\* { $or: [{ "shippingAddress.email": email }, { "pickupDetails.email": email }] }
AddressEmailIs(o, email) ==
    \/ "shippingAddress" \in DOMAIN o /\ o.shippingAddress.email = email
    \/ "pickupDetails" \in DOMAIN o /\ o.pickupDetails.email = email

UserEmailAny(o, email) == "user" \in DOMAIN o

\* o.user && o.user.email === email
UserEmailIs(o, email) == "user" \in DOMAIN o /\ o.user.email = email

\* The indexes of the documents a query returns, in store order
FindOrders(test(_)) ==
    SelectSeq([n \in 1..Len(orders) |-> n], LAMBDA n : test(orders[n]))

\* The first element of a list of indexes, 0 (null) when it is empty
FirstOf(list) == IF list = <<>> THEN 0 ELSE list[1]

\* allOrders.filter((order, index, self) => index === self.findIndex(same _id))
RECURSIVE Unique(_)
Unique(list) ==
    IF list = <<>> THEN <<>>
    ELSE LET init == Unique(SubSeq(list, 1, Len(list) - 1))
             x == list[Len(list)]
         IN IF \E n \in 1..Len(init) : init[n] = x THEN init ELSE Append(init, x)

\* The test of uniqueOrders.find(...): the order matches the ID pattern
MatchesIdPattern(o, cleanOrderId) ==
    \/ o._id = cleanOrderId
    \/ Includes(ToLowerCase(o._id), ToLowerCase(cleanOrderId))
    \/ Includes(ToLowerCase(cleanOrderId), ToLowerCase(o._id))
    \/ "trackingId" \in DOMAIN o /\ Includes(o.trackingId, cleanOrderId)
    \/ "orderNumber" \in DOMAIN o /\ Includes(o.orderNumber, cleanOrderId)
    \/ SliceLast(o._id, 6) = cleanOrderId
    \/ SliceLast(o._id, 8) = cleanOrderId

\* The test of the last resort's allOrders.filter(...)
MatchesPartially(o, email, cleanOrderId) ==
    /\ \/ AddressEmailIs(o, email)
       \/ UserEmailIs(o, email)
    /\ \/ Includes(o._id, cleanOrderId)
       \/ Includes(cleanOrderId, o._id)
       \/ /\ "trackingId" \in DOMAIN o
          /\ \/ Includes(o.trackingId, cleanOrderId)
             \/ Includes(cleanOrderId, o.trackingId)

RequiredMessage == "Email and Order ID are required"
NotFoundMessage ==
    "Order not found with the provided email and order ID. Please check your email and order ID."
TrackErrorMessage == "Error occurred while tracking order. Please try again."

IdleTrack ==
    [pc |-> "idle", email |-> "", cleanOrderId |-> <<>>, found |-> <<>>,
     logged |-> "", resp |-> NoResponse]

\* An _id of the store: a tail after leading zeros
OrderIdOf(tail) ==
    [n \in 1..ObjectIdLen |->
        IF n <= ObjectIdLen - Len(tail) THEN "0" ELSE tail[n - (ObjectIdLen - Len(tail))]]

Id1 == OrderIdOf(<<"a", "b", "0", "a", "b", "1">>)
Id2 == OrderIdOf(<<"1", "b", "0", "a", "b", "2">>)
Id3 == OrderIdOf(<<"b", "b", "b", "b", "b", "b">>)

\* The Order collections a behaviour starts from
OrderStores ==
    {<<[_id |-> Id1, shippingAddress |-> [email |-> "x@shop"],
        user |-> [email |-> "u@shop"], trackingId |-> <<"T", "1">>],
       [_id |-> Id2, pickupDetails |-> [email |-> "y@shop"],
        orderNumber |-> <<"N", "7">>]>>,
     <<[_id |-> Id1, shippingAddress |-> [email |-> "y@shop"]],
       [_id |-> Id2, shippingAddress |-> [email |-> "x@shop"],
        user |-> [email |-> "x@shop"], trackingId |-> <<"T", "1">>]>>}

TrackEmails == {"", "x@shop", "y@shop", "u@shop", "z@shop"}

TrackOrderIds ==
    {<<>>, Id1, <<"#">> \o Id1, [n \in 1..ObjectIdLen |-> IF Id1[n] = "a" THEN "A" ELSE Id1[n]],
     Id2, Id3, <<"0", "a", "b", "1">>, <<"A", "B", "1">>, <<"b", "0", "a", "b", "2">>,
     <<"#", "N", "7", " ">>, <<"X", "T", "1", "Y">>, <<"f", "f">>}

\* The request arrives: the 400 of a missing email or order id, else the
\* clean order id and the first query.
TrackStart ==
    /\ mode = "track"
    /\ track.pc = "idle"
    /\ \E email \in TrackEmails : \E orderId \in TrackOrderIds :
          track' =
             IF email = "" \/ orderId = <<>>
             THEN [IdleTrack EXCEPT !.pc = "done", !.email = email,
                      !.resp = [status |-> 400, message |-> RequiredMessage]]
             ELSE [IdleTrack EXCEPT !.email = email,
                      !.cleanOrderId = CleanOrderId(orderId),
                      !.pc = IF LooksLikeObjectId(CleanOrderId(orderId))
                             THEN "findOne" ELSE "find"]
    /\ UNCHANGED <<products, dims, calls, mode, orders>>

\* res.json(order) once a stage has found the order n
AnswerOrder(n) ==
    [track EXCEPT !.pc = "done", !.resp = [status |-> 200, order |-> n]]

\* await Order.findOne({ _id: cleanOrderId, $or: [address emails] })
TrackFindOne ==
    LET order == FirstOf(FindOrders(
                    LAMBDA o : IdIs(o, track.cleanOrderId) /\ AddressEmailIs(o, track.email)))
    IN /\ track.pc = "findOne"
       /\ track' = IF order # 0 THEN AnswerOrder(order)
                   ELSE [track EXCEPT !.pc = "findById"]
       /\ UNCHANGED <<products, dims, calls, mode, orders>>

\* await Order.findById(cleanOrderId), kept when its user's email is the
\* request's
TrackFindById ==
    LET orderWithUser == FirstOf(FindOrders(LAMBDA o : IdIs(o, track.cleanOrderId)))
    IN /\ track.pc = "findById"
       /\ track' = IF orderWithUser # 0 /\ UserEmailIs(orders[orderWithUser], track.email)
                   THEN AnswerOrder(orderWithUser)
                   ELSE [track EXCEPT !.pc = "find"]
       /\ UNCHANGED <<products, dims, calls, mode, orders>>

\* await Order.find({ $or: [address emails] })
TrackFind ==
    /\ track.pc = "find"
    /\ track' = [track EXCEPT
                   !.found = FindOrders(LAMBDA o : AddressEmailIs(o, track.email)),
                   !.pc = "findAll"]
    /\ UNCHANGED <<products, dims, calls, mode, orders>>

\* await Order.find({}), the orders of the user's email, and the first of
\* the combined orders that matches the ID pattern
TrackFindAll ==
    LET userOrders == FindOrders(LAMBDA o : TRUE)
        userMatchOrders == SelectSeq(userOrders,
                                     LAMBDA n : UserEmailIs(orders[n], track.email))
        uniqueOrders == Unique(track.found \o userMatchOrders)
        order == FirstOf(SelectSeq(uniqueOrders,
                            LAMBDA n : MatchesIdPattern(orders[n], track.cleanOrderId)))
    IN /\ track.pc = "findAll"
       /\ track' = IF order # 0 THEN AnswerOrder(order)
                   ELSE [track EXCEPT !.pc = "partial"]
       /\ UNCHANGED <<products, dims, calls, mode, orders>>

\* The last resort: await Order.find({}) and the first partial match; when
\* there is none, res.status(404) and the throw, which the handler's own
\* catch logs and answers.
TrackPartial ==
    LET matchingOrders == FindOrders(
            LAMBDA o : MatchesPartially(o, track.email, track.cleanOrderId))
    IN /\ track.pc = "partial"
       /\ track' = IF matchingOrders # <<>> THEN AnswerOrder(matchingOrders[1])
                   ELSE [track EXCEPT !.pc = "done", !.logged = NotFoundMessage,
                            !.resp = [status |-> 500, message |-> TrackErrorMessage]]
       /\ UNCHANGED <<products, dims, calls, mode, orders>>

\* A query rejects: console.error(error), res.status(500) and the throw
TrackFail ==
    /\ track.pc \in {"findOne", "findById", "find", "findAll", "partial"}
    /\ track' = [track EXCEPT !.pc = "done", !.logged = StoreError,
                    !.resp = [status |-> 500, message |-> TrackErrorMessage]]
    /\ UNCHANGED <<products, dims, calls, mode, orders>>

(***************************************************************************)
(* Specifications                                                          *)
(***************************************************************************)
InitCalls == [c \in CallIds |-> IdleCall]

Init ==
    /\ mode = "seq"
    /\ \E st \in InitStores : products = st.products /\ dims = st.dims
    /\ calls = InitCalls
    /\ orders = <<>>
    /\ track = IdleTrack

InitRace ==
    /\ mode = "race"
    /\ \E st \in InitStores : products = st.products /\ dims = st.dims
    /\ calls = InitCalls
    /\ orders = <<>>
    /\ track = IdleTrack

Next ==
    \E c \in CallIds :
        \/ Start(c)
        \/ Query(c)
        \/ Create(c)
        \/ Validate(c)
        \/ Respond(c)
        \/ Fail(c)
        \/ Crash(c)
        \/ SaveCheck(c)
        \/ SavePersist(c)

Spec == Init /\ [][Next]_vars

SpecRace == InitRace /\ [][Next]_vars

\* DELETE /api/categories/:id between two requests: the category found is
\* marked deleted and inactive and stays in the collection (soft delete); an
\* unknown id is answered 404.  Nothing else writes these two properties,
\* so findById and save are one step.
DeleteCategory(c) ==
    /\ calls[c].pc = "idle"
    /\ c = "c2" => calls["c1"].pc # "idle"
    /\ \A d \in CallIds : calls[d].pc \notin InFlight
    /\ \E id \in 1..(Len(dims["Category"]) + 1) :
          IF id <= Len(dims["Category"])
          THEN /\ dims' = [dims EXCEPT !["Category"][id] =
                              SetProp(SetProp(@, "isDeleted", TRUE), "isActive", FALSE)]
               /\ calls' = [calls EXCEPT ![c] =
                     [IdleCall EXCEPT !.op = "delete", !.pc = "done",
                         !.base = Len(products),
                         !.resp = [status |-> 200,
                                   message |-> "Category deleted successfully"]]]
          ELSE /\ dims' = dims
               /\ calls' = [calls EXCEPT ![c] =
                     [IdleCall EXCEPT !.op = "delete", !.pc = "done",
                         !.base = Len(products),
                         !.resp = [status |-> 404, message |-> "Category not found"]]]
    /\ UNCHANGED <<products, mode, orders, track>>

InitTrash ==
    /\ mode = "trash"
    /\ \E st \in InitStores : products = st.products /\ dims = st.dims
    /\ calls = InitCalls
    /\ orders = <<>>
    /\ track = IdleTrack

NextTrash ==
    \/ Next
    \/ \E c \in CallIds : DeleteCategory(c)

SpecTrash == InitTrash /\ [][NextTrash]_vars
InitTrack ==
    /\ mode = "track"
    /\ products = <<>>
    /\ dims = EmptyDims
    /\ calls = InitCalls
    /\ orders \in OrderStores
    /\ track = IdleTrack

NextTrack ==
    \/ TrackStart
    \/ TrackFindOne
    \/ TrackFindById
    \/ TrackFind
    \/ TrackFindAll
    \/ TrackPartial
    \/ TrackFail

SpecTrack == InitTrack /\ [][NextTrack]_vars

(***************************************************************************)
(* Properties                                                              *)
(***************************************************************************)
IsPreview(call) == call.op \in {"excel", "csv"}

\* The request was answered 200 with its report
Answered(c) == calls[c].pc = "done" /\ calls[c].resp.status = 200

PreviewAnswered(c) == IsPreview(calls[c]) /\ Answered(c)

SaveAnswered(c) == calls[c].op = "save" /\ Answered(c)

\* The rows a preview validated
PRows(c) == PathRows(calls[c].op, calls[c].rows)

\* The products that were stored when the request arrived
StartProducts(c) == SubSeq(products, 1, calls[c].base)

\* The entries of invalidRows that report input row i (row number i + 1,
\* the header being row 1)
InvalidOf(c, i) ==
    LET inv == calls[c].resp.invalidRows
    IN {k \in 1..Len(inv) : inv[k].row = i + 1}

RejectedAs(c, i, reason) ==
    \E k \in InvalidOf(c, i) : calls[c].resp.invalidRows[k].reason = reason

\* The input rows no entry of invalidRows reports, in input order
AcceptedRows(c) ==
    SelectSeq([i \in 1..Len(calls[c].rows) |-> i], LAMBDA i : InvalidOf(c, i) = {})

\* C1: every input row produces exactly one outcome.  In an answered preview
\* each row is reported by exactly one entry of invalidRows or by none, the
\* rows reported by none are as many as previewProducts, and valid + invalid
\* = total = the number of input rows; in bulk save results has one entry
\* per submitted product, during the loop as in the answer, and success +
\* failed = total.
C1_OneOutcomePerRow ==
    \A c \in CallIds :
        LET call == calls[c]
            n == Len(call.rows)
        IN /\ PreviewAnswered(c) =>
                /\ call.resp.total = n
                /\ call.resp.valid + call.resp.invalid = call.resp.total
                /\ call.resp.valid = Len(call.resp.previewProducts)
                /\ call.resp.invalid = Len(call.resp.invalidRows)
                /\ \A k \in 1..Len(call.resp.invalidRows) :
                      call.resp.invalidRows[k].row \in 2..(n + 1)
                /\ \A i \in 1..n : Cardinality(InvalidOf(c, i)) <= 1
                /\ Len(AcceptedRows(c)) = Len(call.resp.previewProducts)
           /\ (call.op = "save" /\ call.pc \in {"check", "persist"}) =>
                /\ Len(call.results) = call.i - 1
                /\ call.success + call.failed = Len(call.results)
           /\ SaveAnswered(c) =>
                /\ Len(call.resp.results) = n
                /\ call.resp.total = n
                /\ call.resp.success + call.resp.failed = call.resp.total
                /\ call.resp.success =
                      Cardinality({k \in 1..n : call.resp.results[k].status = "success"})

\* A CSV preview of two rows answered with one accepted and one rejected,
\* and the save of what it previewed answered with one product persisted.
C1_Witness ==
    /\ PreviewAnswered("c1")
    /\ calls["c1"].resp.total = 2
    /\ calls["c1"].resp.valid = 1
    /\ calls["c1"].resp.invalid = 1
    /\ SaveAnswered("c2")
    /\ calls["c2"].resp.success = 1

\* C2: the report follows the input order.  In an answered preview the k-th
\* entry of invalidRows carries the row number (0-based index + 2) and the
\* data of an input row, the numbers strictly increase, and previewProducts
\* lists the accepted rows in input order; in bulk save the k-th entry of
\* results has index k (0-based) and reports the k-th submitted product.
C2_ReportInInputOrder ==
    \A c \in CallIds :
        LET call == calls[c]
            inv == call.resp.invalidRows
            acc == AcceptedRows(c)
        IN /\ PreviewAnswered(c) =>
                /\ \A k \in 1..Len(inv) :
                      /\ inv[k].row - 1 \in 1..Len(call.rows)
                      /\ inv[k].data = PRows(c)[inv[k].row - 1]
                /\ \A k \in 1..(Len(inv) - 1) : inv[k].row < inv[k + 1].row
                /\ Len(acc) = Len(call.resp.previewProducts)
                /\ \A k \in 1..Len(acc) :
                      call.resp.previewProducts[k].name = StrOr(PRows(c)[acc[k]], "name")
           /\ SaveAnswered(c) =>
                \A k \in 1..Len(call.resp.results) :
                    /\ call.resp.results[k].index = k - 1
                    /\ IF call.resp.results[k].status = "failed"
                       THEN call.resp.results[k].product = call.rows[k]
                       ELSE call.resp.results[k].product.name = call.rows[k].name

\* An Excel preview that rejected its first row and accepted its second, and
\* a bulk save answered with two results.
C2_Witness ==
    /\ PreviewAnswered("c1")
    /\ calls["c1"].op = "excel"
    /\ Len(calls["c1"].resp.invalidRows) = 1
    /\ calls["c1"].resp.invalidRows[1].row = 2
    /\ Len(calls["c1"].resp.previewProducts) = 1
    /\ SaveAnswered("c2")
    /\ Len(calls["c2"].resp.results) = 1
\* Every column of the row that the alias table knows is blank
CanonBlank(row) ==
    \A key \in DOMAIN row :
        TrimKey(key) \in DOMAIN excelToBackendKey
           => Falsy(excelToBackendKey[TrimKey(key)], row[key])

\* C3: in every import path a row whose every canonical (alias-table) field
\* is blank is rejected with the reason Empty row, whatever its unrecognized
\* (specification) columns hold.
C3_BlankCanonicalFieldsIsEmptyRow ==
    \A c \in CallIds :
        PreviewAnswered(c) =>
            \A i \in 1..Len(calls[c].rows) :
                CanonBlank(calls[c].rows[i]) => RejectedAs(c, i, EmptyRow)

\* The reason a save result gives (none for a success)
ResultReason(res) == IF res.status = "failed" THEN res.reason ELSE ""

\* C4: a non-empty row with no name is always rejected as a missing required
\* field, in the Excel preview, in the CSV preview and in bulk save (where a
\* lookup that rejects is set aside), and is never accepted or persisted.
C4_NoNameIsMissingRequiredField ==
    \A c \in CallIds :
        /\ PreviewAnswered(c) =>
              \A i \in 1..Len(calls[c].rows) :
                  (~AllFalsy(PRows(c)[i]) /\ ~Truthy(PRows(c)[i], "name"))
                     => (RejectedAs(c, i, MissingCsv) \/ RejectedAs(c, i, MissingSave))
        /\ SaveAnswered(c) =>
              \A k \in 1..Len(calls[c].rows) :
                  (/\ ~ProdAllFalsy(calls[c].rows[k])
                   /\ ~ProdTruthy(calls[c].rows[k], "name")
                   /\ ResultReason(calls[c].resp.results[k]) # StoreError)
                     => ResultReason(calls[c].resp.results[k]) = MissingSave

\* The row lacks a field its import path requires (the name everywhere, the
\* parent category in the CSV preview and in bulk save)
LacksRequired(op, row) ==
    CASE op = "excel" -> ~Truthy(row, "name")
      [] op = "csv" -> ~Truthy(row, "name") \/ ~Truthy(row, "parent_category")
      [] OTHER -> ~ProdTruthy(row, "name") \/ ~ProdTruthy(row, "parentCategory")

\* C5: the checks run in the order empty row, missing required field,
\* duplicate, and the first that fails gives the reason: in the CSV preview,
\* the Excel preview and bulk save, a row that lacks a required field and
\* also collides by name or slug with a stored product is reported as a
\* missing required field, not as a duplicate.
C5_MissingBeforeDuplicate ==
    \A c \in CallIds :
        /\ PreviewAnswered(c) =>
              \A i \in 1..Len(calls[c].rows) :
                  LET row == PRows(c)[i] IN
                  (/\ ~AllFalsy(row)
                   /\ LacksRequired(calls[c].op, row)
                   /\ \E k \in 1..Len(StartProducts(c)) :
                         \/ Truthy(row, "name") /\ StartProducts(c)[k].name = row.name
                         \/ Truthy(row, "slug") /\ StartProducts(c)[k].slug = row.slug)
                     => (RejectedAs(c, i, MissingCsv) \/ RejectedAs(c, i, MissingSave))
        /\ SaveAnswered(c) =>
              \A k \in 1..Len(calls[c].rows) :
                  LET prod == calls[c].rows[k] IN
                  (/\ ~ProdAllFalsy(prod)
                   /\ LacksRequired("save", prod)
                   /\ FindExisting(StartProducts(c), prod)
                   /\ ResultReason(calls[c].resp.results[k]) # StoreError)
                     => ResultReason(calls[c].resp.results[k]) = MissingSave

\* Rows i < j of the request carry the identical, non-blank name, and no
\* product of that name was stored when the request arrived
TwinRows(c, i, j) ==
    LET rows == IF calls[c].op = "save" THEN calls[c].rows ELSE PRows(c) IN
    /\ i < j
    /\ "name" \in DOMAIN rows[i] /\ "name" \in DOMAIN rows[j]
    /\ rows[i].name # Blank
    /\ rows[i].name = rows[j].name
    /\ \A k \in 1..Len(StartProducts(c)) : StartProducts(c)[k].name # rows[i].name

SavedBefore(c, row) ==
    /\ "name" \in DOMAIN row
    /\ row.name # Blank
    /\ \E k \in 1..Len(StartProducts(c)) : StartProducts(c)[k].name = row.name

\* No two stored products carry the same name
NoProductTwice ==
    \A i, j \in 1..Len(products) : i < j => products[i].name # products[j].name

\* C7 as claimed: a run over rows of which some were persisted before rejects
\* every previously saved row with the duplicate reason, in preview and in
\* save, and no row is persisted twice.
C7_RerunRejectsSavedAsDuplicate ==
    /\ NoProductTwice
    /\ \A c \in CallIds :
          /\ PreviewAnswered(c) =>
                \A i \in 1..Len(calls[c].rows) :
                    (SavedBefore(c, PRows(c)[i]) /\ ~LacksRequired(calls[c].op, PRows(c)[i]))
                       => RejectedAs(c, i, DuplicateRow)
          /\ SaveAnswered(c) =>
                \A k \in 1..Len(calls[c].rows) :
                    SavedBefore(c, calls[c].rows[k])
                       => ResultReason(calls[c].resp.results[k]) = DuplicateRow

\* C7 amended: the previously saved rows are rejected as duplicates by a
\* preview, and recorded as failed by a save, with the duplicate reason or,
\* when the row's own lookup rejects, with that error's message; in either
\* case no row is persisted twice.
C7_RerunNeverPersistsTwice ==
    /\ NoProductTwice
    /\ \A c \in CallIds :
          /\ PreviewAnswered(c) =>
                \A i \in 1..Len(calls[c].rows) :
                    (SavedBefore(c, PRows(c)[i]) /\ ~LacksRequired(calls[c].op, PRows(c)[i]))
                       => RejectedAs(c, i, DuplicateRow)
          /\ SaveAnswered(c) =>
                \A k \in 1..Len(calls[c].rows) :
                    SavedBefore(c, calls[c].rows[k])
                       => /\ calls[c].resp.results[k].status = "failed"
                          /\ calls[c].resp.results[k].reason \in {DuplicateRow, StoreError}

\* A save of two products died after persisting the first; the same payload
\* saved again fails the first as a duplicate and persists the second.
C7_Witness ==
    /\ calls["c1"].op = "save"
    /\ calls["c1"].pc = "crashed"
    /\ Len(calls["c1"].rows) = 2
    /\ calls["c2"].base = calls["c1"].base + 1
    /\ SaveAnswered("c2")
    /\ calls["c2"].rows = calls["c1"].rows
    /\ SavedBefore("c2", calls["c2"].rows[1])
    /\ ~SavedBefore("c1", calls["c1"].rows[1])
    /\ ResultReason(calls["c2"].resp.results[1]) = DuplicateRow
    /\ calls["c2"].resp.results[2].status = "success"

\* The resolver of the preview has run to its end
Resolved(c) ==
    IsPreview(calls[c]) /\ calls[c].pc \in {"products", "populate", "done"}

\* The property of a candidate that holds the id resolved for a row's column
CandidateField(field) == IF field = "parent_category" THEN "parentCategory" ELSE field

\* C8: after the resolution phase of a preview the map of each kind has an
\* entry for every trimmed, lower-cased dimension name of the input rows,
\* the entry is the id of a stored entity of that normalized name, and every
\* accepted row naming the dimension carries that one id, so that rows whose
\* names are equal after trim and case-fold get the same id.
C8_EveryNameResolved ==
    \A c \in CallIds :
        Resolved(c) =>
            LET call == calls[c]
                pd == PathDims(call.op)
            IN \A n \in 1..Len(pd) : \A i \in 1..Len(call.rows) :
                  LET row == PRows(c)[i]
                      key == NormKey(row[pd[n].field])
                      map == call.maps[pd[n].kind]
                  IN Truthy(row, pd[n].field) =>
                        /\ key \in DOMAIN map
                        /\ map[key] \in 1..Len(dims[pd[n].kind])
                        /\ NormKey(dims[pd[n].kind][map[key]].name) = key
                        /\ Answered(c) =>
                              \A k \in 1..Len(call.previewProducts) :
                                  AcceptedRows(c)[k] = i =>
                                      /\ CandidateField(pd[n].field) \in DOMAIN call.previewProducts[k]
                                      /\ call.previewProducts[k][CandidateField(pd[n].field)] = map[key]

\* An answered preview of two accepted rows that name one category in
\* different letter case, the name being created by this run: both carry the
\* id of the one entity created.
C8_Witness ==
    /\ PreviewAnswered("c1")
    /\ Len(calls["c1"].rows) = 2
    /\ Len(calls["c1"].previewProducts) = 2
    /\ LET f == ParentField(calls["c1"].op)
           rows == PRows("c1")
       IN /\ Truthy(rows[1], f) /\ Truthy(rows[2], f)
          /\ rows[1][f] # rows[2][f]
          /\ NormKey(rows[1][f]) = NormKey(rows[2][f])
          /\ calls["c1"].missing # {}
          /\ calls["c1"].maps["Category"][NormKey(rows[1][f])] = Len(dims["Category"])

\* C9: each dimension kind holds at most one entity per normalized name: no
\* two entities of a kind have names equal after trimming and case-folding,
\* whatever runs that do not overlap have been made.
C9_OneEntityPerNormalizedName ==
    \A kind \in Kinds : \A i, j \in 1..Len(dims[kind]) :
        i < j => NormKey(dims[kind][i].name) # NormKey(dims[kind][j].name)

\* The entities of a kind whose name normalizes to key
SameKey(kind, key) ==
    {i \in 1..Len(dims[kind]) : NormKey(dims[kind][i].name) = key}

\* C10: when two overlapping previews each found the same dimension name
\* absent at the end of their queries, nothing stops either create: once
\* both resolvers have run to their end the store holds two entities of that
\* kind and normalized name.
C10_BothCreate ==
    \A c, d \in CallIds :
        (c # d /\ Resolved(c) /\ Resolved(d)) =>
            \A m \in calls[c].missing : \A m2 \in calls[d].missing :
                (m.kind = m2.kind /\ NormKey(m.name) = NormKey(m2.name))
                   => Cardinality(SameKey(m.kind, NormKey(m.name))) >= 2

\* Two overlapping previews answered, each having found the same category
\* name absent: the store ends with two categories that are equal in every
\* field and differ by identifier only.
C10_Witness ==
    /\ PreviewAnswered("c1") /\ PreviewAnswered("c2")
    /\ \E m \in calls["c1"].missing \cap calls["c2"].missing :
          /\ m.kind = "Category"
          /\ \E i, j \in 1..Len(dims["Category"]) :
                /\ i < j
                /\ dims["Category"][i] = dims["Category"][j]
                /\ dims["Category"][i].name = Trim(m.name)
                /\ calls["c1"].maps["Category"][NormKey(m.name)]
                      # calls["c2"].maps["Category"][NormKey(m.name)]
\* The save has reached row i of its loop, or has left the loop
InSaveLoop(c) ==
    /\ calls[c].op = "save"
    /\ calls[c].pc \in {"check", "persist", "populate"} \/ Answered(c)

\* The products stored since the request arrived
StoredSince(c) ==
    {products[k] : k \in (calls[c].base + 1)..Len(products)}

\* C11: in bulk save a failure while checking or persisting a row is
\* recorded on that row, with the underlying message, and never aborts the
\* batch: every row before the one in hand has its own result whatever
\* failed earlier, the loop is left only after the last row, and every
\* product a result reports as saved is in the store.
C11_RowFailureNeverAborts ==
    \A c \in CallIds :
        InSaveLoop(c) =>
            LET call == calls[c] IN
            /\ Len(call.results) = call.i - 1
            /\ call.pc \in {"check", "persist"} => call.i <= Len(call.rows)
            /\ call.pc \in {"populate", "done"} => Len(call.results) = Len(call.rows)
            /\ \A k \in 1..Len(call.results) :
                  /\ call.results[k].index = k - 1
                  /\ IF call.results[k].status = "success"
                     THEN call.results[k].product \in StoredSince(c)
                     ELSE call.results[k].reason
                             \in {EmptyRow, DuplicateRow, MissingSave, StoreError}

\* A save of two products whose first row failed on a rejected store
\* operation and whose second row was persisted; the same payload saved
\* again persisted the first row and then failed on the second.
C11_Witness ==
    /\ SaveAnswered("c1") /\ SaveAnswered("c2")
    /\ Len(calls["c1"].rows) = 2
    /\ ResultReason(calls["c1"].results[1]) = StoreError
    /\ calls["c1"].results[2].status = "success"
    /\ calls["c2"].results[1].status = "success"
    /\ ResultReason(calls["c2"].results[2]) = StoreError
    /\ Len(products) = calls["c1"].base + 2
\* The save c takes the step that checks the candidate in hand, and that
\* candidate's name or slug is that of a product stored at this moment
ChecksStoredCandidate(c) ==
    /\ calls[c].op = "save"
    /\ calls[c].pc = "check"
    /\ calls'[c].pc \in {"check", "persist", "populate"}
    /\ calls'[c] # calls[c]
    /\ FindExisting(products, calls[c].rows[calls[c].i])

\* The result the step recorded for the candidate in hand
Recorded(c) == calls'[c].results[calls[c].i]

\* C12 as claimed: a candidate whose name or slug is that of a product
\* stored at the moment it is processed is always recorded as failed with
\* the duplicate reason, and is not persisted.
C12_StoredCandidateIsDuplicate ==
    [][\A c \in CallIds :
          ChecksStoredCandidate(c) =>
              /\ products' = products
              /\ Len(calls'[c].results) = calls[c].i
              /\ Recorded(c).status = "failed"
              /\ Recorded(c).reason = DuplicateRow]_vars

\* C12 amended: such a candidate is never persisted and is recorded as
\* failed in the step that checks it, with the duplicate reason, or with the
\* error's message when the lookup itself rejects.
C12_StoredCandidateNeverSaved ==
    [][\A c \in CallIds :
          ChecksStoredCandidate(c) =>
              /\ products' = products
              /\ Len(calls'[c].results) = calls[c].i
              /\ Recorded(c).status = "failed"
              /\ Recorded(c).reason \in {DuplicateRow, StoreError}
              /\ Recorded(c).product = calls[c].rows[calls[c].i]]_vars

\* A save persisted its first candidate and failed its second, which has
\* the same name, as a duplicate of the product it had just saved.
C12_Witness ==
    /\ SaveAnswered("c1")
    /\ Len(calls["c1"].rows) = 2
    /\ calls["c1"].results[1].status = "success"
    /\ ResultReason(calls["c1"].results[2]) = DuplicateRow
    /\ ~FindExisting(StartProducts("c1"), calls["c1"].rows[2])
    /\ Len(products) = calls["c1"].base + 1
\* The collection after is the collection before with documents appended
Extends(after, before) ==
    /\ Len(after) >= Len(before)
    /\ SubSeq(after, 1, Len(before)) = before

\* The step is one of the preview c
PreviewStep(c) == IsPreview(calls'[c]) /\ calls'[c] # calls[c]

\* C13: a preview leaves the product store unchanged and only adds
\* dimension entities: each of its steps, a failing one included, keeps
\* every stored product and keeps every dimension entity, old or created by
\* the call, present and unmodified.
C13_PreviewOnlyAddsDimensions ==
    [][\A c \in CallIds :
          PreviewStep(c) =>
              /\ products' = products
              /\ \A kind \in Kinds : Extends(dims'[kind], dims[kind])]_vars

\* A preview that created a dimension entity and then failed: the entity is
\* in the store, the products are those the request found.
C13_Witness ==
    /\ IsPreview(calls["c1"])
    /\ calls["c1"].pc = "failed"
    /\ calls["c2"].pc = "idle"
    /\ \A st \in InitStores : dims # st.dims
    /\ \E st \in InitStores :
          /\ products = st.products
          /\ \A kind \in Kinds : Extends(dims[kind], st.dims[kind])
\* The call ended with the one top-level failure: status 500, the message of
\* the error, and no report
TopLevelFailure(call) ==
    /\ call.pc = "failed"
    /\ DOMAIN call.resp = {"status", "message", "error"}
    /\ call.resp.status = 500
    /\ call.resp.error = StoreError

\* In this step of c a store operation rejected: the handler's catch ran, or
\* the lookup of the save loop threw for the row in hand.
LookupRejected(c) ==
    /\ calls[c].op = "save"
    /\ calls[c].pc = "check"
    /\ Len(calls'[c].results) = calls[c].i
    /\ ResultReason(calls'[c].results[calls[c].i]) = StoreError

StoreFailureStep(c) ==
    \/ calls[c].pc # "failed" /\ calls'[c].pc = "failed"
    \/ LookupRejected(c)

\* C14 as claimed: whenever a store operation fails during an import call,
\* bulk save included, the call ends with a single top-level failure that
\* carries the message and has no per-row report; the failure is never
\* turned into a per-row outcome.
C14_StoreFailureIsTopLevel ==
    [][\A c \in CallIds :
          StoreFailureStep(c) => TopLevelFailure(calls'[c])]_vars

\* C14 amended: a store failure during a preview ends the call with the one
\* top-level failure, no report, and no answered preview carries a row whose
\* reason is the store's error; in bulk save the failure of a row's lookup
\* is recorded as that row's failed result with the error's message and the
\* call goes on without answering.
C14_PreviewFailureIsTopLevel ==
    [][\A c \in CallIds :
          /\ (calls[c].pc # "failed" /\ calls'[c].pc = "failed")
                => /\ TopLevelFailure(calls'[c])
                   /\ calls'[c].previewProducts = <<>>
                   /\ calls'[c].invalidRows = <<>>
                   /\ calls'[c].results = <<>>
          /\ (IsPreview(calls'[c]) /\ calls'[c].pc = "done")
                => \A k \in 1..Len(calls'[c].resp.invalidRows) :
                      calls'[c].resp.invalidRows[k].reason
                         \in {EmptyRow, MissingCsv, DuplicateRow}
          /\ LookupRejected(c)
                => /\ calls'[c].pc \in {"check", "populate"}
                   /\ calls'[c].resp = NoResponse
                   /\ calls'[c].results[calls[c].i].status = "failed"]_vars

\* A preview of two rows ended with the top-level failure; the same rows
\* previewed again were answered with their report, one row rejected.
C14_Witness ==
    /\ IsPreview(calls["c1"])
    /\ TopLevelFailure(calls["c1"])
    /\ PreviewAnswered("c2")
    /\ calls["c2"].rows = calls["c1"].rows
    /\ Len(calls["c2"].rows) = 2
    /\ calls["c2"].resp.invalid = 1
\* The stock status the claim gives a row: its own when it is one of the
\* three allowed, "Available Product" otherwise
CanonicalStatus(row) ==
    IF "stockStatus" \in DOMAIN row /\ row.stockStatus \in allowedStockStatus
    THEN row.stockStatus
    ELSE "Available Product"

\* C15: every candidate of a preview and every product persisted by bulk
\* save has a stockStatus among "Available Product", "Out of Stock" and
\* "PreOrder": an allowed value is kept, a blank or unrecognized one becomes
\* "Available Product", and the row is not rejected for it (a row with its
\* required fields that collides with no stored product is accepted).
C15_StockStatusCanonical ==
    /\ \A k \in 1..Len(products) : products[k].stockStatus \in allowedStockStatus
    /\ \A c \in CallIds :
          /\ PreviewAnswered(c) =>
                /\ \A k \in 1..Len(calls[c].previewProducts) :
                      /\ calls[c].previewProducts[k].stockStatus \in allowedStockStatus
                      /\ calls[c].previewProducts[k].stockStatus
                            = CanonicalStatus(PRows(c)[AcceptedRows(c)[k]])
                      /\ calls[c].resp.previewProducts[k].stockStatus
                            = calls[c].previewProducts[k].stockStatus
                /\ \A i \in 1..Len(calls[c].rows) :
                      (/\ "stockStatus" \in DOMAIN PRows(c)[i]
                       /\ ~LacksRequired(calls[c].op, PRows(c)[i])
                       /\ ~IsDuplicate(PRows(c)[i],
                                       {p.name : p \in SeqRange(StartProducts(c))},
                                       {p.slug : p \in SeqRange(StartProducts(c))}))
                         => InvalidOf(c, i) = {}
          /\ InSaveLoop(c) =>
                \A k \in 1..Len(calls[c].results) :
                    calls[c].results[k].status = "success"
                       => calls[c].results[k].product.stockStatus
                             = CanonicalStatus(calls[c].rows[k])

\* A preview accepted a row whose status is "Backordered" and a row whose
\* status is allowed and not the default: the first candidate has
\* "Available Product", the second keeps its status.
C15_Witness ==
    /\ PreviewAnswered("c1")
    /\ Len(calls["c1"].rows) = 2
    /\ Len(calls["c1"].previewProducts) = 2
    /\ "stockStatus" \in DOMAIN PRows("c1")[1]
    /\ "stockStatus" \in DOMAIN PRows("c1")[2]
    /\ PRows("c1")[1].stockStatus = "Backordered"
    /\ calls["c1"].previewProducts[1].stockStatus = "Available Product"
    /\ PRows("c1")[2].stockStatus \in allowedStockStatus \ {"Available Product"}
    /\ calls["c1"].previewProducts[2].stockStatus = PRows("c1")[2].stockStatus
\* The kind of entity the property category of a row names in each path
CategoryKind(op) == IF op = "excel" THEN "Category" ELSE "SubCategory"

\* The row of C16: a name, a category name the queries of this run did not
\* find, a price that is a number or a string of digits, no stockStatus and
\* no maxPurchaseQty; its name and slug collide with no stored product.
WidgetRow(c, row) ==
    /\ Truthy(row, "name")
    /\ Truthy(row, "category")
    /\ [kind |-> CategoryKind(calls[c].op), name |-> Trim(row.category)] \in calls[c].missing
    /\ Truthy(row, "price")
    /\ DigitPrefix(row.price.text) = row.price.text
    /\ "stockStatus" \notin DOMAIN row
    /\ "maxPurchaseQty" \notin DOMAIN row
    /\ ~IsDuplicate(row, {p.name : p \in SeqRange(StartProducts(c))},
                         {p.slug : p \in SeqRange(StartProducts(c))})

\* C16: in either preview such a row is accepted, and its candidate has
\* category set to the id of the entity this run created for the name, price
\* equal to the number the row gives, stockStatus "Available Product" and
\* maxPurchaseQty 10.
C16_WidgetRowAccepted ==
    \A c \in CallIds :
        PreviewAnswered(c) =>
            \A i \in 1..Len(calls[c].rows) :
                WidgetRow(c, PRows(c)[i]) =>
                    /\ InvalidOf(c, i) = {}
                    /\ \E k \in 1..Len(calls[c].previewProducts) :
                          LET cand == calls[c].previewProducts[k]
                              kind == CategoryKind(calls[c].op)
                          IN /\ AcceptedRows(c)[k] = i
                             /\ "category" \in DOMAIN cand
                             /\ cand.category \in 1..Len(dims[kind])
                             /\ dims[kind][cand.category].name = Trim(PRows(c)[i].category)
                             /\ cand.price = JsNumber(PRows(c)[i].price.text)
                             /\ cand.stockStatus = "Available Product"
                             /\ cand.maxPurchaseQty = DefaultMaxPurchaseQty
\* The names and the slugs of the products stored when the request arrived
StartNames(c) == {p.name : p \in SeqRange(StartProducts(c))}
StartSlugs(c) == {p.slug : p \in SeqRange(StartProducts(c))}

\* C17: the two previews require different fields.  The CSV preview rejects
\* a non-empty row that has a name and no parent category as a missing
\* required field; the Excel preview rejects rows as empty or duplicate
\* only, so a row without a parent category that is neither is accepted.
C17_RequiredFieldsDiffer ==
    \A c \in CallIds :
        PreviewAnswered(c) =>
            \A i \in 1..Len(calls[c].rows) :
                LET row == PRows(c)[i] IN
                IF calls[c].op = "csv"
                THEN (Truthy(row, "name") /\ ~Truthy(row, "parent_category"))
                        => /\ RejectedAs(c, i, MissingCsv)
                           /\ Cardinality(InvalidOf(c, i)) = 1
                ELSE /\ ~RejectedAs(c, i, MissingCsv)
                     /\ ~RejectedAs(c, i, MissingSave)
                     /\ (/\ ~Truthy(row, "parent_category")
                         /\ ~AllFalsy(row)
                         /\ ~IsDuplicate(row, StartNames(c), StartSlugs(c)))
                           => InvalidOf(c, i) = {}

\* A CSV preview rejected a row that has a name and a category but no
\* parent category as a missing required field, and accepted the same row
\* given with a parent category.
C17_Witness ==
    /\ PreviewAnswered("c1")
    /\ calls["c1"].op = "csv"
    /\ Len(calls["c1"].rows) = 2
    /\ Truthy(calls["c1"].rows[1], "name")
    /\ Truthy(calls["c1"].rows[1], "category")
    /\ ~Truthy(calls["c1"].rows[1], "parent_category")
    /\ RejectedAs("c1", 1, MissingCsv)
    /\ Truthy(calls["c1"].rows[2], "parent_category")
    /\ InvalidOf("c1", 2) = {}
\* The dimension properties the handler populates in the answer
PopulatedFields(op) ==
    IF op = "excel" THEN {"category", "subCategory", "brand"}
    ELSE {"parentCategory", "category", "brand"}

SecondRun ==
    /\ PreviewAnswered("c1")
    /\ calls["c2"].op = calls["c1"].op
    /\ calls["c2"].rows = calls["c1"].rows
    /\ Resolved("c2")

\* C19: resolution is idempotent across runs that do not overlap: a second
\* preview of the same rows finds every name, so it creates no dimension
\* entity, and resolves every name to the identifier of the first run.
C19_SecondRunCreatesNothing ==
    SecondRun =>
        /\ calls["c2"].missing = {}
        /\ calls["c2"].maps = calls["c1"].maps
        /\ \A kind \in Kinds :
              \A key \in DOMAIN calls["c1"].maps[kind] :
                  calls["c1"].maps[kind][key] \in 1..Len(dims[kind])

\* The first preview created two entities or more; the second preview of
\* the same rows was answered having found them all.
C19_Witness ==
    /\ SecondRun
    /\ PreviewAnswered("c2")
    /\ Cardinality(calls["c1"].missing) >= 2
    /\ calls["c2"].missing = {}
    /\ \E m \in calls["c1"].missing :
          calls["c2"].maps[m.kind][NormKey(m.name)] = calls["c1"].maps[m.kind][NormKey(m.name)]
\* The rows of the preview c that pair the subcategory name with a
\* non-blank parent category name
PairingRows(c, name) ==
    {i \in 1..Len(calls[c].rows) :
        /\ Truthy(PRows(c)[i], SubField(calls[c].op))
        /\ NormKey(PRows(c)[i][SubField(calls[c].op)]) = NormKey(name)
        /\ Truthy(PRows(c)[i], ParentField(calls[c].op))}

\* The subcategory the run resolved the name to
CreatedSub(c, name) ==
    dims["SubCategory"][calls[c].maps["SubCategory"][NormKey(name)]]

\* The category id the run resolved the parent of row i to
ParentOfRow(c, i) ==
    calls[c].maps["Category"][NormKey(PRows(c)[i][ParentField(calls[c].op)])]

\* C20: a subcategory the resolver created refers to the category resolved
\* from the first row, in input order, that pairs its name (after trim and
\* case-fold) with a non-blank parent category name, whatever parent later
\* rows give; when no row pairs it with a parent it has no parent.
C20_FirstParentWins ==
    \A c \in CallIds :
        Resolved(c) =>
            \A m \in calls[c].missing :
                m.kind = "SubCategory" =>
                    LET hits == PairingRows(c, m.name)
                        sub == CreatedSub(c, m.name)
                    IN IF hits = {}
                       THEN "category" \notin DOMAIN sub
                       ELSE /\ "category" \in DOMAIN sub
                            /\ \E i \in hits :
                                  /\ \A j \in hits : i <= j
                                  /\ sub.category = ParentOfRow(c, i)

\* A preview of two rows that give one subcategory two different parent
\* categories created the subcategory under the parent of the first row.
C20_Witness ==
    /\ PreviewAnswered("c1")
    /\ Len(calls["c1"].rows) = 2
    /\ \E m \in calls["c1"].missing :
          /\ m.kind = "SubCategory"
          /\ PairingRows("c1", m.name) = {1, 2}
          /\ ParentOfRow("c1", 1) # ParentOfRow("c1", 2)
          /\ CreatedSub("c1", m.name).category = ParentOfRow("c1", 1)

\* The candidate an answered preview reports for its k-th accepted row, and
\* that row
AcceptedRow(c, k) == PRows(c)[AcceptedRows(c)[k]]
AcceptedCandidate(c, k) == calls[c].resp.previewProducts[k]

SavedOk(c) ==
    {k \in 1..Len(calls[c].resp.results) : calls[c].resp.results[k].status = "success"}

\* The row's value of f is non-blank and, trimmed, is in the set
TrimmedIn(row, f, values) ==
    Truthy(row, f) /\ Trim(row[f]) # Blank /\ Trim(row[f]) \in values

\* C21: in a preview a non-empty row that passes the required-field check is
\* rejected as a duplicate exactly when its non-blank name, trimmed, is the
\* name of a stored product or its non-blank slug, trimmed, is the slug of a
\* stored product, the comparison being case-sensitive.
C21_DuplicateIffTrimmedMatch ==
    \A c \in CallIds :
        PreviewAnswered(c) =>
            \A i \in 1..Len(calls[c].rows) :
                LET row == PRows(c)[i] IN
                (~AllFalsy(row) /\ ~LacksRequired(calls[c].op, row)) =>
                    (RejectedAs(c, i, DuplicateRow)
                        <=> \/ TrimmedIn(row, "name", StartNames(c))
                            \/ TrimmedIn(row, "slug", StartSlugs(c)))

\* What the claim gives flag f of a row: true for true or "true", false for
\* false or "false", the default d when the row has no f
FlagClaimed(row, f, d) == IF f \in DOMAIN row THEN row[f].text = sTrue ELSE d

FlagsAsClaimed(row, built) ==
    /\ \A f \in FlagFields :
          (f \in DOMAIN row => row[f].text \in {sTrue, sFalse})
             => built[f] = JsBoolean(FlagClaimed(row, f, TRUE))
    /\ built.isActive = (IF "isActive" \in DOMAIN row THEN row.isActive ELSE TRUE)
    /\ built.featured = (IF "featured" \in DOMAIN row THEN row.featured ELSE FALSE)

\* C22: in the Excel preview, the CSV preview and bulk save each of
\* showStockOut, canPurchase, refundable, isActive and featured of the
\* candidate or product built is true for the input true or "true", false
\* for false or "false", and the default when the input is absent: true,
\* except featured, which defaults to false.
C22_FlagsParsed ==
    \A c \in CallIds :
        /\ PreviewAnswered(c) =>
              \A k \in 1..Len(calls[c].resp.previewProducts) :
                  FlagsAsClaimed(AcceptedRow(c, k), AcceptedCandidate(c, k))
        /\ SaveAnswered(c) =>
              \A k \in SavedOk(c) :
                  FlagsAsClaimed(calls[c].rows[k], calls[c].resp.results[k].product)

\* C23: every accepted candidate whose row gives a name and no slug carries
\* the non-blank slug generated from the name, in the Excel preview, the CSV
\* preview and bulk save, and a slug given in the row is kept unchanged.
C23_SlugGeneratedWhenAbsent ==
    \A c \in CallIds :
        /\ PreviewAnswered(c) =>
              \A k \in 1..Len(calls[c].resp.previewProducts) :
                  LET row == AcceptedRow(c, k)
                      cand == AcceptedCandidate(c, k)
                  IN /\ (Truthy(row, "name") /\ ~Truthy(row, "slug")) =>
                            cand.slug = generateSlug(row.name) /\ cand.slug # Blank
                     /\ Truthy(row, "slug") => cand.slug = row.slug
        /\ SaveAnswered(c) =>
              \A k \in SavedOk(c) :
                  LET prod == calls[c].rows[k]
                      doc == calls[c].resp.results[k].product
                  IN /\ (ProdTruthy(prod, "name") /\ ~ProdTruthy(prod, "slug")) =>
                            doc.slug = generateSlug(prod.name) /\ doc.slug # Blank
                     /\ ProdTruthy(prod, "slug") => doc.slug = prod.slug

\* C24: every tax entity an import run creates, in the Excel preview as in
\* the CSV preview, is created with the rate 5.
C24_CreatedTaxHasRate ==
    \A i \in 1..Len(dims["Tax"]) :
        /\ "rate" \in DOMAIN dims["Tax"][i]
        /\ dims["Tax"][i].rate = DefaultTaxRate

\* The position of a header in the sheet
ColumnIndex(key) == CHOOSE n \in 1..Len(Columns) : Columns[n] = key

\* The specification entries of a normalized row: the array remapRow adds
\* when some unrecognized column is non-blank
EntriesOf(raw, mapped, recognized) ==
    IF \E key \in DOMAIN raw : key \notin recognized /\ raw[key] # Blank
    THEN mapped.specifications ELSE <<>>

\* C25 as claimed: normalization keeps every column exactly once.  A column
\* whose name is a key of the alias table appears under its canonical name
\* with its value; every other column appears as one {key, value}
\* specification entry when its value is non-blank and is dropped when it is
\* blank; no recognized column becomes a specification and no unrecognized
\* column a canonical field.
C25_EveryColumnKeptOnce ==
    \A c \in CallIds :
        calls[c].op = "excel" =>
            \A i \in 1..Len(calls[c].rows) :
                LET raw == calls[c].rows[i]
                    mapped == PRows(c)[i]
                    known == DOMAIN raw \cap DOMAIN excelToBackendKey
                    specs == EntriesOf(raw, mapped, known)
                IN /\ \A key \in known :
                         LET canon == excelToBackendKey[key] IN
                         /\ canon \in DOMAIN mapped
                         /\ canon # "specifications" => mapped[canon] = raw[key]
                   /\ Cardinality(DOMAIN mapped \ {"specifications"})
                         = Cardinality(known \ {"specifications"})
                   /\ \A key \in DOMAIN raw \ known :
                         Cardinality({e \in 1..Len(specs) :
                                         specs[e].key = key /\ specs[e].value = raw[key]})
                            = IF raw[key] # Blank THEN 1 ELSE 0
                   /\ Len(specs) = Cardinality({key \in DOMAIN raw \ known : raw[key] # Blank})

\* C25, amended: a column whose trimmed name is a key of the alias table is
\* recognized, and the normalized row has exactly the canonical names of
\* the recognized columns (plus specifications when there is an entry); each
\* canonical field holds the value of the last column, in sheet order, that
\* maps to it, except that the array of entries replaces a specifications
\* column; every other column appears as exactly one {trimmed name, value}
\* entry when its value is non-blank and as none when it is blank, and the
\* entries are as many as the non-blank unrecognized columns, so no
\* recognized column is among them.
C25_LastAliasWins ==
    \A c \in CallIds :
        calls[c].op = "excel" =>
            \A i \in 1..Len(calls[c].rows) :
                LET raw == calls[c].rows[i]
                    mapped == PRows(c)[i]
                    recognized == {key \in DOMAIN raw :
                                      TrimKey(key) \in DOMAIN excelToBackendKey}
                    canon(key) == excelToBackendKey[TrimKey(key)]
                    specs == EntriesOf(raw, mapped, recognized)
                    last(key) == \A other \in recognized :
                                    canon(other) = canon(key)
                                       => ColumnIndex(other) <= ColumnIndex(key)
                IN /\ DOMAIN mapped \ {"specifications"}
                         = {canon(key) : key \in recognized} \ {"specifications"}
                   /\ "specifications" \in DOMAIN mapped
                         <=> \/ specs # <<>>
                             \/ \E key \in recognized : canon(key) = "specifications"
                   /\ \A key \in recognized :
                         (last(key) /\ ~(canon(key) = "specifications" /\ specs # <<>>))
                            => mapped[canon(key)] = raw[key]
                   /\ \A key \in DOMAIN raw \ recognized :
                         Cardinality({e \in 1..Len(specs) :
                                         specs[e].key = TrimKey(key)
                                            /\ specs[e].value = raw[key]})
                            = IF raw[key] # Blank THEN 1 ELSE 0
                   /\ Len(specs)
                         = Cardinality({key \in DOMAIN raw \ recognized : raw[key] # Blank})

\* An Excel preview of a row with the columns SKU and sku, a specifications
\* column and a non-blank unrecognized column, and of a row with a padded
\* header: sku holds the value of the later column, the entries replace the
\* specifications column, and the padded header gives its canonical field.
C25_Witness ==
    /\ calls["c1"].op = "excel"
    /\ calls["c1"].pc = "done"
    /\ Len(calls["c1"].rows) = 2
    /\ {"SKU", "sku", "specifications", "material"} \subseteq DOMAIN calls["c1"].rows[1]
    /\ PRows("c1")[1].sku = calls["c1"].rows[1].sku
    /\ PRows("c1")[1].sku # calls["c1"].rows[1].SKU
    /\ Len(PRows("c1")[1].specifications) = 1
    /\ "barcode " \in DOMAIN calls["c1"].rows[2]
    /\ "barcode" \in DOMAIN PRows("c1")[2]

\* The second request saves, unchanged, what the first one previewed
SavesPreviewed ==
    /\ PreviewAnswered("c1")
    /\ SaveAnswered("c2")
    /\ calls["c2"].rows = calls["c1"].resp.previewProducts

\* No stored product and no earlier candidate of the batch has the name or
\* the slug of candidate k
FreshCandidate(c, k) ==
    LET prod == calls[c].rows[k] IN
    /\ \A p \in SeqRange(StartProducts(c)) : p.name # prod.name /\ p.slug # prod.slug
    /\ \A j \in 1..(k - 1) :
          calls[c].rows[j].name # prod.name /\ calls[c].rows[j].slug # prod.slug

\* C26: preview and save compose.  Every candidate an Excel or CSV preview
\* reports as valid, submitted unchanged to bulk save against a store with
\* no product of its name or slug, passes the required-field check of bulk
\* save and is persisted, unless the store itself fails.  Stated for the
\* candidates that carry a name.
C26_PreviewedCandidateIsSaved ==
    SavesPreviewed =>
        \A k \in 1..Len(calls["c2"].rows) :
            (FreshCandidate("c2", k) /\ ProdTruthy(calls["c2"].rows[k], "name")) =>
                LET res == calls["c2"].resp.results[k] IN
                \/ res.status = "success"
                \/ res.reason = StoreError

\* C27: after any sequence of bulk saves that do not overlap, on a store
\* whose products have pairwise distinct names and slugs, no two stored
\* products share a name and no two share a slug, the slugs generated from
\* the name of a candidate without a slug included.
C27_NamesAndSlugsStayDistinct ==
    \A i, j \in 1..Len(products) :
        i < j => /\ products[i].name # products[j].name
                 /\ products[i].slug # products[j].slug

\* The categories marked deleted
DeletedCategories ==
    {id \in 1..Len(dims["Category"]) :
        /\ "isDeleted" \in DOMAIN dims["Category"][id]
        /\ dims["Category"][id].isDeleted}

\* The category identifiers a candidate refers to
CategoryRefs(op, cand) ==
    {cand[f] : f \in {CandidateField(ParentField(op))} \cap DOMAIN cand}

\* C28: after a category was soft-deleted, no candidate a preview accepts
\* refers to it: a category name of the input that matches only a deleted
\* category is not resolved to the deleted entity.
C28_NoCandidateOfDeletedCategory ==
    (/\ calls["c1"].op = "delete"
     /\ calls["c1"].resp.status = 200
     /\ PreviewAnswered("c2")) =>
        \A k \in 1..Len(calls["c2"].previewProducts) :
            CategoryRefs(calls["c2"].op, calls["c2"].previewProducts[k])
                \cap DeletedCategories = {}

\* The emails an order carries: of its shipping address, of its pickup
\* details and of its owning user
OrderEmails(o) ==
    {o[f].email : f \in {"shippingAddress", "pickupDetails", "user"} \cap DOMAIN o}

TrackAnswered(status) == track.pc = "done" /\ track.resp.status = status

C30_NotFoundIs404 ==
    track.pc = "done" =>
        /\ track.logged = NotFoundMessage =>
              /\ track.resp.status = 404
              /\ track.resp.message = NotFoundMessage
        /\ track.resp.status = 500 => track.logged = StoreError
====
